---- MODULE Spec2Model ----
(***************************************************************************)
(* Targeting cache and matching engine of target-engine                    *)
(* (internal/service: TargetingService), with the repository it refreshes  *)
(* from and the request model it validates.                                *)
(*                                                                         *)
(* Go strings are sequences of one-character strings, so that TrimSpace,   *)
(* ToUpper, ToLower and EqualFold are computed and not assumed.            *)
(* Go maps are functions with a finite domain; a nil slice is <<>>.        *)
(***************************************************************************)
EXTENDS Integers, Sequences, FiniteSets, TLC

----------------------------------------------------------------------------
(* String literals used by the sample data, the tests and the requests.    *)

s_empty == <<>>
s_blank == <<" ">>
s_x == <<"x">>
s_abc == <<"c", "o", "m", ".", "a", "b", "c", ".", "x", "y", "z">>
s_ludo == <<"c", "o", "m", ".", "g", "a", "m", "e", "t", "i", "o", "n", ".", "l", "u", "d", "o", "k", "i", "n", "g", "g", "a", "m", "e">>
s_ludo_sp == <<" ", "c", "o", "m", ".", "g", "a", "m", "e", "t", "i", "o", "n", ".", "l", "u", "d", "o", "k", "i", "n", "g", "g", "a", "m", "e", " ">>
s_germany == <<"g", "e", "r", "m", "a", "n", "y">>
s_us == <<"u", "s">>
s_us_sp == <<" ", "u", "s", " ">>
s_US == <<"U", "S">>
s_Canada == <<"C", "a", "n", "a", "d", "a">>
s_antarctica == <<"a", "n", "t", "a", "r", "c", "t", "i", "c", "a">>
s_android == <<"a", "n", "d", "r", "o", "i", "d">>
s_Android == <<"A", "n", "d", "r", "o", "i", "d">>
s_Android_sp == <<" ", "A", "n", "d", "r", "o", "i", "d", " ">>
s_ios == <<"i", "o", "s">>
s_iOS == <<"i", "O", "S">>
s_windows == <<"w", "i", "n", "d", "o", "w", "s">>
s_example == <<"c", "o", "m", ".", "e", "x", "a", "m", "p", "l", "e", ".", "a", "p", "p">>
s_canada == <<"c", "a", "n", "a", "d", "a">>
s_CANADA == <<"C", "A", "N", "A", "D", "A">>
s_GERMANY == <<"G", "E", "R", "M", "A", "N", "Y">>
s_ANDROID == <<"A", "N", "D", "R", "O", "I", "D">>
s_bar == <<"|">>

LowerLetters == <<"a", "b", "c", "d", "e", "f", "g", "h", "i", "j", "k", "l", "m", "n", "o", "p", "q", "r", "s", "t", "u", "v", "w", "x", "y", "z">>
UpperLetters == <<"A", "B", "C", "D", "E", "F", "G", "H", "I", "J", "K", "L", "M", "N", "O", "P", "Q", "R", "S", "T", "U", "V", "W", "X", "Y", "Z">>

----------------------------------------------------------------------------
(* package strings                                                         *)

ToUpperRune(c) ==
    IF \E i \in 1..Len(LowerLetters) : LowerLetters[i] = c
    THEN UpperLetters[CHOOSE i \in 1..Len(LowerLetters) : LowerLetters[i] = c]
    ELSE c

ToLowerRune(c) ==
    IF \E i \in 1..Len(UpperLetters) : UpperLetters[i] = c
    THEN LowerLetters[CHOOSE i \in 1..Len(UpperLetters) : UpperLetters[i] = c]
    ELSE c

ToUpper(s) == [i \in 1..Len(s) |-> ToUpperRune(s[i])]

ToLower(s) == [i \in 1..Len(s) |-> ToLowerRune(s[i])]

IsSpace(c) == c = " "

RECURSIVE TrimLeft(_)
TrimLeft(s) == IF s # <<>> /\ IsSpace(Head(s)) THEN TrimLeft(Tail(s)) ELSE s

RECURSIVE TrimRight(_)
TrimRight(s) ==
    IF s # <<>> /\ IsSpace(s[Len(s)]) THEN TrimRight(SubSeq(s, 1, Len(s) - 1)) ELSE s

TrimSpace(s) == TrimRight(TrimLeft(s))

\* strings.EqualFold on the ASCII strings of the model: equal after case folding
EqualFold(a, b) == ToLower(a) = ToLower(b)

----------------------------------------------------------------------------
(* package model                                                           *)

StatusActive == "ACTIVE"
StatusInactive == "INACTIVE"

IsActive(campaign) == campaign.Status = StatusActive

ToDeliveryResponse(campaign) ==
    [CID |-> campaign.ID, Image |-> campaign.Image, CTA |-> campaign.CTA]

\* The two declarations of DeliveryRequest differ in the validate tag of OS.
OSTagRequired == "required"
OSTagOneOf == "required,oneof=android ios"
OSTags == {OSTagRequired, OSTagOneOf}

DeliveryRequest(app, country, os) == [App |-> app, Country |-> country, OS |-> os]

----------------------------------------------------------------------------
(* Matcher (pure part of TargetingService)                                 *)

EmptyMap == [k \in {} |-> k]

\* validator "required" on a string field: the field is not the zero value
Required(field) == field # s_empty

\* validator "oneof=android ios": exact comparison with the listed values
OneOfAndroidIos(field) == field \in {s_android, s_ios}

\* validateRequest without the check of Country
validateRequestNoCountry(tag, req) ==
    /\ Required(req.App)
    /\ Required(req.OS)
    /\ (tag = OSTagOneOf => OneOfAndroidIos(req.OS))

validateRequest(tag, req) ==
    /\ Required(req.App)
    /\ Required(req.Country)
    /\ Required(req.OS)
    /\ (tag = OSTagOneOf => OneOfAndroidIos(req.OS))

normalizeRequest(req) ==
    [App |-> TrimSpace(req.App),
     Country |-> ToUpper(TrimSpace(req.Country)),
     OS |-> TrimSpace(req.OS)]

generateCacheKey(req) ==
    req.App \o s_bar \o req.Country \o s_bar \o ToLower(req.OS)

\* a containsValue that compares by equality whatever caseSensitive is
containsValueExact(slice, value, caseSensitive) ==
    \E i \in 1..Len(slice) : slice[i] = value

containsValue(slice, value, caseSensitive) ==
    \E i \in 1..Len(slice) :
        IF caseSensitive THEN slice[i] = value ELSE EqualFold(slice[i], value)

\* a matchesDimension that does not consult the exclude list
matchesDimensionNoExclude(value, include, exclude, caseSensitive) ==
    IF Len(include) > 0
    THEN containsValue(include, value, caseSensitive)
    ELSE TRUE

\* a matchesDimension in which the include list is consulted first and the
\* exclude list only when there is no include list
matchesDimensionIncludeFirst(value, include, exclude, caseSensitive) ==
    IF Len(include) > 0
    THEN containsValue(include, value, caseSensitive)
    ELSE ~containsValue(exclude, value, caseSensitive)

matchesDimension(value, include, exclude, caseSensitive) ==
    IF Len(exclude) > 0 /\ containsValue(exclude, value, caseSensitive)
    THEN FALSE
    ELSE IF Len(include) > 0
         THEN containsValue(include, value, caseSensitive)
         ELSE TRUE

\* a ruleMatches for which one passing dimension is enough
ruleMatchesAnyDimension(rule, req) ==
    \/ matchesDimension(req.Country, rule.IncludeCountry, rule.ExcludeCountry, TRUE)
    \/ matchesDimension(req.OS, rule.IncludeOS, rule.ExcludeOS, FALSE)
    \/ matchesDimension(req.App, rule.IncludeApp, rule.ExcludeApp, TRUE)

\* a ruleMatches that compares countries ignoring the letter case
ruleMatchesCountryFold(rule, req) ==
    /\ matchesDimension(req.Country, rule.IncludeCountry, rule.ExcludeCountry, FALSE)
    /\ matchesDimension(req.OS, rule.IncludeOS, rule.ExcludeOS, FALSE)
    /\ matchesDimension(req.App, rule.IncludeApp, rule.ExcludeApp, TRUE)

ruleMatches(rule, req) ==
    /\ matchesDimension(req.Country, rule.IncludeCountry, rule.ExcludeCountry, TRUE)
    /\ matchesDimension(req.OS, rule.IncludeOS, rule.ExcludeOS, FALSE)
    /\ matchesDimension(req.App, rule.IncludeApp, rule.ExcludeApp, TRUE)

\* a campaignMatches for which a campaign without rules matches nothing
campaignMatchesNoRulesNoMatch(rulesMap, campaignID, req) ==
    /\ campaignID \in DOMAIN rulesMap
    /\ \E i \in 1..Len(rulesMap[campaignID]) : ruleMatches(rulesMap[campaignID][i], req)

campaignMatches(rulesMap, campaignID, req) ==
    IF campaignID \notin DOMAIN rulesMap \/ Len(rulesMap[campaignID]) = 0
    THEN TRUE
    ELSE \E i \in 1..Len(rulesMap[campaignID]) : ruleMatches(rulesMap[campaignID][i], req)

\* a loop that does not look at the status of the campaigns
RECURSIVE matchLoopAnyStatus(_, _, _, _)
matchLoopAnyStatus(order, campaignsMap, rulesMap, req) ==
    IF order = <<>> THEN <<>>
    ELSE LET campaignID == Head(order)
             campaign == campaignsMap[campaignID]
             rest == matchLoopAnyStatus(Tail(order), campaignsMap, rulesMap, req)
         IN  IF campaignMatches(rulesMap, campaignID, req)
             THEN <<ToDeliveryResponse(campaign)>> \o rest
             ELSE rest

\* The loop of findMatchingCampaigns over the campaigns map, visited in the
\* order `order` (Go leaves the iteration order of a map unspecified).
RECURSIVE matchLoop(_, _, _, _)
matchLoop(order, campaignsMap, rulesMap, req) ==
    IF order = <<>> THEN <<>>
    ELSE LET campaignID == Head(order)
             campaign == campaignsMap[campaignID]
             rest == matchLoop(Tail(order), campaignsMap, rulesMap, req)
         IN  IF IsActive(campaign) /\ campaignMatches(rulesMap, campaignID, req)
             THEN <<ToDeliveryResponse(campaign)>> \o rest
             ELSE rest

\* all orders in which a range loop can visit the keys of a map
Orders(keys) ==
    {o \in [1..Cardinality(keys) -> keys] : \A i, j \in 1..Cardinality(keys) : o[i] = o[j] => i = j}

Range(seq) == {seq[i] : i \in 1..Len(seq)}

----------------------------------------------------------------------------
(* Repository contents: the sample data of NewMemoryRepository and a       *)
(* second source state that a repository write leads to.                   *)

NoList == <<>>

Rule(id, cid, incCountry, excCountry, incOS, excOS, incApp, excApp) ==
    [ID |-> id, CampaignID |-> cid,
     IncludeCountry |-> incCountry, ExcludeCountry |-> excCountry,
     IncludeOS |-> incOS, ExcludeOS |-> excOS,
     IncludeApp |-> incApp, ExcludeApp |-> excApp]

Campaign(id, image, cta, status) ==
    [ID |-> id, Image |-> image, CTA |-> cta, Status |-> status]

SampleCampaigns ==
    << Campaign("spotify", "https://somelink", "Download", StatusActive),
       Campaign("duolingo", "https://somelink2", "Install", StatusActive),
       Campaign("subwaysurfer", "https://somelink3", "Play", StatusActive) >>

SampleRules ==
    << Rule(1, "spotify", <<s_US, s_Canada>>, NoList, NoList, NoList, NoList, NoList),
       Rule(2, "duolingo", NoList, <<s_US>>, <<s_Android, s_iOS>>, NoList, NoList, NoList),
       Rule(3, "subwaysurfer", NoList, NoList, <<s_Android>>, NoList, <<s_ludo>>, NoList) >>

\* after UpdateCampaign has replaced duolingo by a campaign that is not
\* active and a rule was created for it (CreateTargetingRule assigns
\* identifier 4)
ChangedCampaigns ==
    << Campaign("spotify", "https://somelink", "Download", StatusActive),
       Campaign("subwaysurfer", "https://somelink3", "Play", StatusActive) >>

ChangedRules ==
    SampleRules \o << Rule(4, "duolingo", NoList, NoList, <<s_iOS>>, NoList, NoList, NoList) >>

SourceStates == {"sample", "changed"}

\* a nil *models.TargetingRule
NilRule == [nil |-> TRUE]

\* what an implementation of TargetingRuleRepository may return: the element
\* type of the list is a pointer, and the second entry is nil
RulesWithNil ==
    << SampleRules[1], NilRule, SampleRules[2], SampleRules[3] >>

\* the entries of a list that a range over it visits before the first nil
RECURSIVE BeforeNil(_)
BeforeNil(list) ==
    IF list = <<>> \/ Head(list) = NilRule THEN <<>>
    ELSE <<Head(list)>> \o BeforeNil(Tail(list))

\* the documents of the campaigns collection that RepositoryImpl queries
MongoDocuments ==
    << [campaign_id |-> "spotify", image |-> "https://somelink", cta |-> "Download",
        status |-> "ACTIVE"],
       [campaign_id |-> "duolingo", image |-> "https://somelink2", cta |-> "Install",
        status |-> "INACTIVE"],
       [campaign_id |-> "subwaysurfer", image |-> "https://somelink3", cta |-> "Play",
        status |-> "ACTIVE"] >>

\* the zero value of Campaign.Status
NoStatus == ""

\* RepositoryImpl.GetActiveCampaigns: the documents with status ACTIVE, each
\* decoded into a Campaign with ID, Name, Image and CTA; Status is not set
RECURSIVE MongoGetActiveCampaigns(_)
MongoGetActiveCampaigns(docs) ==
    IF docs = <<>> THEN <<>>
    ELSE LET d == Head(docs)
             rest == MongoGetActiveCampaigns(Tail(docs))
         IN  IF d.status = "ACTIVE"
             THEN <<Campaign(d.campaign_id, d.image, d.cta, NoStatus)>> \o rest
             ELSE rest

\* RepositoryImpl.GetTargetingRules returns nil, nil
MongoGetTargetingRules == <<>>

SourceCampaigns(src) ==
    CASE src = "sample" -> SampleCampaigns
      [] src = "changed" -> ChangedCampaigns
      [] src = "mongo" -> MongoGetActiveCampaigns(MongoDocuments)
      [] src = "paused" -> ChangedCampaigns
      [] src = "nilrule" -> SampleCampaigns

SourceRules(src) ==
    CASE src = "sample" -> SampleRules
      [] src = "changed" -> ChangedRules
      [] src = "mongo" -> MongoGetTargetingRules
      [] src = "paused" -> SampleRules
      [] src = "nilrule" -> RulesWithNil

\* refreshCache lines 256-259: the campaigns map built from the fetched list
RECURSIVE populateCampaigns(_, _)
populateCampaigns(m, list) ==
    IF list = <<>> THEN m
    ELSE LET c == Head(list)
             m1 == [k \in DOMAIN m \cup {c.ID} |-> IF k = c.ID THEN c ELSE m[k]]
         IN  populateCampaigns(m1, Tail(list))

\* a grouping that keeps only the last rule of every campaign
RECURSIVE populateRulesLastWins(_, _)
populateRulesLastWins(m, list) ==
    IF list = <<>> THEN m
    ELSE LET r == Head(list)
             m1 == [k \in DOMAIN m \cup {r.CampaignID} |->
                       IF k = r.CampaignID THEN <<r>> ELSE m[k]]
         IN  populateRulesLastWins(m1, Tail(list))

\* refreshCache lines 261-264: rules appended to the group of their campaign
RECURSIVE populateRules(_, _)
populateRules(m, list) ==
    IF list = <<>> THEN m
    ELSE LET r == Head(list)
             old == IF r.CampaignID \in DOMAIN m THEN m[r.CampaignID] ELSE <<>>
             m1 == [k \in DOMAIN m \cup {r.CampaignID} |->
                       IF k = r.CampaignID THEN Append(old, r) ELSE m[k]]
         IN  populateRules(m1, Tail(list))

----------------------------------------------------------------------------
(* Bounds and the inputs of the model                                      *)

\* time.Now() returns a value in 1..MaxTime; 0 is the zero time.Time
MaxTime == 2

\* config.Cache.MaxSize ranges over 0..MaxCacheSize (0 is the empty Config
\* of the tests)
MaxCacheSize == 1

\* config.Cache.MaxSize ranges over 0..MaxPutSize where the claim is about
\* setToQueryCache on a cache of several entries
MaxPutSize == 2

\* goroutines that call the service
Clients == {"c1", "c2", "c3", "c4", "c5"}

\* the callers that run concurrently with each other
ConcClients == {"c2", "c3"}

NoHolder == "none"
Refresher == "refresher"

\* requests issued by a single caller
Requests ==
    { DeliveryRequest(s_abc, s_germany, s_android),
      DeliveryRequest(s_x, s_antarctica, s_windows),
      DeliveryRequest(s_empty, s_us, s_android),
      DeliveryRequest(s_abc, s_empty, s_android),
      DeliveryRequest(s_abc, s_us, s_empty),
      DeliveryRequest(s_blank, s_us, s_android),
      DeliveryRequest(s_ludo_sp, s_us_sp, s_Android_sp) }

\* requests issued by callers that run concurrently
ConcRequests ==
    { DeliveryRequest(s_abc, s_germany, s_android),
      DeliveryRequest(s_abc, s_us, s_ios) }

\* the caller that issues the requests of the test scenarios
ScenarioClient == "c4"

\* requests of the test scenarios, in the letter case and with the
\* surrounding whitespace the tests give them
ScenarioRequests ==
    { DeliveryRequest(s_abc, s_germany, s_android),
      DeliveryRequest(s_ludo, s_us, s_android),
      DeliveryRequest(s_example, s_canada, s_ios),
      DeliveryRequest(s_example, s_CANADA, s_ios),
      DeliveryRequest(s_abc, s_germany, s_ANDROID),
      DeliveryRequest(s_ludo_sp, s_us_sp, s_Android_sp) }

\* the goroutine that serves GET /v1/delivery
HandlerClient == "c5"

\* query strings of requests to GET /v1/delivery: the parameters that are
\* present, with their values
HandlerQueries ==
    { [app |-> s_abc, country |-> s_germany, os |-> s_android],
      [country |-> s_germany, os |-> s_android],
      [app |-> s_abc, os |-> s_android],
      [app |-> s_abc, country |-> s_germany],
      [app |-> s_x, country |-> s_antarctica, os |-> s_windows] }

\* url.Values.Get: the value of the parameter, the empty string when it is
\* not there
Get(query, name) == IF name \in DOMAIN query THEN query[name] ELSE s_empty

\* GetCampaigns lines 25-30: the request built from the query
ParseQuery(query) ==
    DeliveryRequest(Get(query, "app"), Get(query, "country"), Get(query, "os"))

RequestsOf(c) ==
    IF c \in ConcClients THEN ConcRequests
    ELSE IF c = ScenarioClient THEN ScenarioRequests
    ELSE IF c = HandlerClient THEN {ParseQuery(q) : q \in HandlerQueries}
    ELSE Requests

\* two requests that differ at most in surrounding whitespace, in the
\* letter case of the country and in the letter case of the OS
SameUpToNormalization(a, b) ==
    /\ TrimSpace(a.App) = TrimSpace(b.App)
    /\ ToUpper(TrimSpace(a.Country)) = ToUpper(TrimSpace(b.Country))
    /\ ToUpper(TrimSpace(a.OS)) = ToUpper(TrimSpace(b.OS))

----------------------------------------------------------------------------
(* The arguments the matcher is applied to on its own                      *)

\* largest number of rules of the campaign the matcher is applied to
MaxRules == 2

MatcherCampaign == "spotify"

MatcherRules ==
    { Rule(1, MatcherCampaign, <<s_US, s_Canada>>, NoList, NoList, NoList, NoList, NoList),
      Rule(2, MatcherCampaign, NoList, <<s_US>>, <<s_Android, s_iOS>>, NoList, NoList, NoList),
      Rule(3, MatcherCampaign, NoList, NoList, <<s_Android>>, NoList, <<s_ludo>>, NoList),
      Rule(4, MatcherCampaign, <<s_US, s_Canada>>, <<s_US>>, NoList, NoList, NoList, NoList),
      Rule(5, MatcherCampaign, NoList, NoList, NoList, <<s_iOS>>, NoList, <<s_abc>>),
      Rule(6, MatcherCampaign, NoList, NoList, NoList, NoList, NoList, NoList) }

\* the rule lists s.cache.targetingRules can hold for a campaign, and the
\* empty list
MatcherRuleLists ==
    UNION {[1..n -> MatcherRules] : n \in 0..MaxRules}

\* rules maps without an entry for the campaign and with one
MatcherMaps ==
    {EmptyMap} \cup {[k \in {MatcherCampaign} |-> l] : l \in MatcherRuleLists}

\* requests as findMatchingCampaigns receives them: normalized
MatcherRequests ==
    { normalizeRequest(DeliveryRequest(app, country, os)) :
        app \in {s_abc, s_ludo},
        country \in {s_us, s_canada, s_germany},
        os \in {s_android, s_ANDROID, s_ios, s_windows} }

Dimensions == {"country", "os", "app"}

\* the arguments ruleMatches passes to matchesDimension for a dimension
\* (lines 146, 151 and 156)
DimensionArgs(rule, r, d) ==
    CASE d = "country" ->
            [value |-> r.Country, include |-> rule.IncludeCountry,
             exclude |-> rule.ExcludeCountry, caseSensitive |-> TRUE]
      [] d = "os" ->
            [value |-> r.OS, include |-> rule.IncludeOS,
             exclude |-> rule.ExcludeOS, caseSensitive |-> FALSE]
      [] d = "app" ->
            [value |-> r.App, include |-> rule.IncludeApp,
             exclude |-> rule.ExcludeApp, caseSensitive |-> TRUE]

NoMatcherIn == [rules |-> EmptyMap, campaignID |-> "", req |-> DeliveryRequest(s_empty, s_empty, s_empty)]
NoMatcherOut == [fn |-> "none", rule |-> 0, dim |-> "", val |-> FALSE]

----------------------------------------------------------------------------
(* The state of the service                                                *)

NoRequest == DeliveryRequest(s_empty, s_empty, s_empty)

NoReturn == [kind |-> "none", list |-> <<>>]
NoObs == [repeat |-> FALSE, variant |-> FALSE, settled |-> FALSE, prev |-> <<>>,
          done |-> FALSE, undisturbed |-> FALSE, hit |-> FALSE]

\* what a returning call records: whether it was answered from the query
\* cache and whether a refresh or an eviction happened since the caller's
\* previous call returned
Returned(o, isHit, disturbed) ==
    [o EXCEPT !.done = TRUE, !.hit = isHit, !.undisturbed = ~disturbed]

VARIABLES
    campaigns,        \* s.cache.campaigns
    targetingRules,   \* s.cache.targetingRules
    queryCache,       \* s.cache.queryCache
    lastUpdate,       \* s.cache.lastUpdate
    lastRefresh,      \* s.lastRefresh
    maxSize,          \* s.config.Cache.MaxSize
    osTag,            \* validate tag of DeliveryRequest.OS in the build
    writer,           \* holder of s.cache.mutex as a writer
    readers,          \* holders of s.cache.mutex as readers
    source,           \* what the repository currently holds
    refPc,            \* position of the goroutine running refreshCache
    refCampaigns,     \* refreshCache local: campaigns
    refRules,         \* refreshCache local: targetingRules
    refErr,           \* error returned by refreshCache ("" is nil)
    workerPc,         \* position of the goroutine running startCacheRefreshWorker
    pc,               \* position of each caller
    req,              \* request of the current (or last) call
    passCampaigns,    \* campaigns map a matching pass ranges over
    matches,          \* findMatchingCampaigns local: matches
    ret,              \* what the last call returned
    stats,            \* what the last GetCacheStats returned
    \* history variables
    snapVersion,      \* number of Snapshot replacements so far
    installed,        \* the Snapshots that have been installed
    passVer,          \* snapVersion when the pass read the campaigns map
    passRules,        \* rules map the pass read
    queryCacheVer,    \* snapVersion each query cache entry was computed at
    discarded,        \* whether refreshCache removed an entry from the query cache
    dist,             \* refresh or eviction since the caller's last call returned
    obs,              \* how the current call relates to the caller's previous call
    \* the matcher applied on its own
    matcherIn,        \* arguments: a rules map, a campaign identifier, a request
    matcherOut,       \* the function applied last and the value it returned
    \* the delivery handler
    response,         \* what GetCampaigns wrote last, and the call it answered
    \* the MemoryRepository
    repoCampaigns,    \* r.campaigns (the identifiers it holds)
    repoTargetingRules, \* r.targetingRules, keyed by campaign identifier
    rulesByID,        \* r.rulesByID
    nextRuleID,       \* r.nextRuleID
    assigned,         \* history: the identifiers seeded or assigned, in order
    deleted,          \* history: identifiers deleted by DeleteTargetingRule and not assigned since
    repoRet,          \* the repository operation applied last and what it returned
    \* the Timeout middleware around a handler
    tmPc,             \* position of the goroutine running the middleware
    nextPc,           \* position of the goroutine running next.ServeHTTP
    nextStatus,       \* the status of the response the wrapped handler writes
    ctxErr,           \* ctx.Err() ("" while ctx.Done() is open)
    done,             \* number of values in the channel done (capacity 1)
    w                 \* the http.ResponseWriter both goroutines hold

cacheVars == <<campaigns, targetingRules, queryCache, lastUpdate, lastRefresh>>
configVars == <<maxSize, osTag>>
lockVars == <<writer, readers>>
refVars == <<refPc, refCampaigns, refRules, refErr>>
clientVars == <<pc, req, passCampaigns, matches, ret, stats>>
histVars == <<snapVersion, installed, passVer, passRules, queryCacheVer, discarded, dist, obs>>
matcherVars == <<matcherIn, matcherOut>>
handlerVars == <<response>>
memVars == <<repoCampaigns, repoTargetingRules, rulesByID, nextRuleID, assigned, deleted, repoRet>>
timeoutVars == <<tmPc, nextPc, nextStatus, ctxErr, done, w>>
vars == <<cacheVars, configVars, lockVars, source, refVars, workerPc, clientVars, histVars,
         matcherVars, handlerVars, memVars, timeoutVars>>

Snapshot(c, r) == [campaigns |-> c, rules |-> r]

\* net/http status codes the response package uses
StatusOK == 200
StatusNoContent == 204
StatusBadRequest == 400

\* nothing has been written; `query` and `of` record the request and the
\* return of GetMatchingCampaigns that a response answers
NoResponse ==
    [status |-> 0, written |-> FALSE, campaigns |-> <<>>, error |-> "", message |-> "",
     query |-> NoRequest, of |-> NoReturn]

\* encoding/json of a []*DeliveryResponse: objects with the keys cid, img, cta
EncodeCampaigns(list) ==
    [i \in 1..Len(list) |-> [cid |-> list[i].CID, img |-> list[i].Image, cta |-> list[i].CTA]]

\* response.Success: JSON(w, 200, data)
Success(data) ==
    [NoResponse EXCEPT !.status = StatusOK, !.written = TRUE, !.campaigns = EncodeCampaigns(data)]

\* response.NoContent: the status line only
NoContent == [NoResponse EXCEPT !.status = StatusNoContent]

\* response.BadRequest: JSON(w, 400, ErrorResponse{"Bad Request", message, 400})
BadRequest(msg) ==
    [NoResponse EXCEPT !.status = StatusBadRequest, !.written = TRUE,
                       !.error = "Bad Request", !.message = msg]

\* err.Error() of the error validateRequest returns: the first field that
\* fails its tag
ValidationMessage(tag, r) ==
    IF ~Required(r.App) THEN "Field validation for 'App' failed on the 'required' tag"
    ELSE IF ~Required(r.Country) THEN "Field validation for 'Country' failed on the 'required' tag"
    ELSE IF ~Required(r.OS) THEN "Field validation for 'OS' failed on the 'required' tag"
    ELSE "Field validation for 'OS' failed on the 'oneof' tag"

\* a handler that answers an empty list with 200
GetCampaignsWriteEmptyList(returned, msg) ==
    IF returned.kind = "err" THEN BadRequest(msg)
    ELSE Success(returned.list)

\* GetCampaigns lines 33-45: the response for what GetMatchingCampaigns
\* returned
GetCampaignsWrite(returned, msg) ==
    IF returned.kind = "err" THEN BadRequest(msg)
    ELSE IF Len(returned.list) = 0 THEN NoContent
    ELSE Success(returned.list)

NoStats == [campaigns_count |-> 0, targeting_rules_count |-> 0, query_cache_size |-> 0,
            last_refresh |-> 0, last_update |-> 0]

\* NewTargetingService has returned: empty maps, the refreshCache goroutine
\* and the worker goroutine are started and have not run yet.
\* the configuration is one of `sizes` and `tags`, the repository is in one
\* of the states `sources`
\* the rules of `list` whose CampaignID is cid, in the order of the list
RECURSIVE RulesOf(_, _)
RulesOf(list, cid) ==
    IF list = <<>> THEN <<>>
    ELSE IF Head(list).CampaignID = cid
         THEN <<Head(list)>> \o RulesOf(Tail(list), cid)
         ELSE RulesOf(Tail(list), cid)

NoRepoReturn == [op |-> "none", id |-> 0, cid |-> "", err |-> "", list |-> <<>>]

\* NewMemoryRepository with initializeSampleData: the three sample campaigns,
\* each sample rule appended to the list of its campaign and stored under
\* its identifier, nextRuleID 4
NewMemoryRepository ==
    /\ repoCampaigns = {SampleCampaigns[i].ID : i \in 1..Len(SampleCampaigns)}
    /\ repoTargetingRules =
          [cid \in {SampleRules[i].CampaignID : i \in 1..Len(SampleRules)} |->
              RulesOf(SampleRules, cid)]
    /\ rulesByID = [id \in {SampleRules[i].ID : i \in 1..Len(SampleRules)} |->
                      CHOOSE rule \in Range(SampleRules) : rule.ID = id]
    /\ nextRuleID = 4
    /\ assigned = [i \in 1..Len(SampleRules) |-> SampleRules[i].ID]
    /\ deleted = {}
    /\ repoRet = NoRepoReturn

\* http.StatusRequestTimeout
StatusRequestTimeout == 408

\* a ResponseWriter nothing was written to: `by` lists who called Write or
\* WriteHeader, in order, `late` whether a call came after ServeHTTP of the
\* middleware had returned
NoWriter == [wroteHeader |-> FALSE, status |-> 0, contentType |-> "", body |-> <<>>,
             by |-> <<>>, late |-> FALSE]

\* no request is in the middleware
NoTimeoutRequest ==
    /\ tmPc = "idle"
    /\ nextPc = "none"
    /\ nextStatus = 0
    /\ ctxErr = ""
    /\ done = 0
    /\ w = NoWriter

ServiceInitFor(sizes, tags, sources) ==
    /\ campaigns = EmptyMap
    /\ targetingRules = EmptyMap
    /\ queryCache = EmptyMap
    /\ lastUpdate = 0
    /\ lastRefresh = 0
    /\ maxSize \in sizes
    /\ osTag \in tags
    /\ writer = NoHolder
    /\ readers = {}
    /\ source \in sources
    /\ refPc = "fetchCampaigns"
    /\ refCampaigns = <<>>
    /\ refRules = <<>>
    /\ refErr = ""
    /\ workerPc = "start"
    /\ pc = [c \in Clients |-> "idle"]
    /\ req = [c \in Clients |-> NoRequest]
    /\ passCampaigns = [c \in Clients |-> EmptyMap]
    /\ matches = [c \in Clients |-> <<>>]
    /\ ret = [c \in Clients |-> NoReturn]
    /\ stats = [c \in Clients |-> NoStats]
    /\ snapVersion = 0
    /\ installed = {Snapshot(EmptyMap, EmptyMap)}
    /\ passVer = [c \in Clients |-> 0]
    /\ passRules = [c \in Clients |-> EmptyMap]
    /\ queryCacheVer = EmptyMap
    /\ discarded = FALSE
    /\ dist = [c \in Clients |-> FALSE]
    /\ obs = [c \in Clients |-> NoObs]
    /\ response = NoResponse
    /\ NewMemoryRepository
    /\ NoTimeoutRequest

ServiceInit == ServiceInitFor(0..MaxCacheSize, OSTags, {"sample"})

Init ==
    /\ ServiceInit
    /\ matcherIn = NoMatcherIn
    /\ matcherOut = NoMatcherOut

\* the rules of the campaign the matcher is applied to
MatcherRuleList ==
    IF matcherIn.campaignID \in DOMAIN matcherIn.rules
    THEN matcherIn.rules[matcherIn.campaignID]
    ELSE <<>>

----------------------------------------------------------------------------
(* sync.RWMutex                                                            *)

CanRLock == writer = NoHolder

CanLock == writer = NoHolder /\ readers = {}

----------------------------------------------------------------------------
(* GetMatchingCampaigns                                                    *)

\* a caller invokes GetMatchingCampaigns(ctx, r)
Call(c) ==
    /\ pc[c] = "idle"
    /\ \E r \in RequestsOf(c) :
          /\ req' = [req EXCEPT ![c] = r]
          /\ LET again == ret[c].kind = "ok" /\ req[c] = r
                 other == /\ ret[c].kind = "ok" /\ req[c] # r
                          /\ obs[c].settled /\ SameUpToNormalization(req[c], r)
             IN  obs' = [obs EXCEPT ![c] =
                            [NoObs EXCEPT !.repeat = again,
                                          !.variant = other,
                                          !.settled = (refPc = "done"),
                                          !.prev = IF again \/ other THEN ret[c].list ELSE <<>>]]
    /\ pc' = [pc EXCEPT ![c] = "validate"]
    /\ ret' = [ret EXCEPT ![c] = NoReturn]
    /\ UNCHANGED <<cacheVars, configVars, matcherVars, handlerVars, memVars, timeoutVars, lockVars, source, refVars, workerPc,
                   passCampaigns, matches, stats,
                   snapVersion, installed, passVer, passRules, queryCacheVer, discarded, dist>>

\* lines 58-60: an invalid request returns the validation error (the return is
\* recorded like every other return of the call)
Validate(c) ==
    /\ pc[c] = "validate"
    /\ IF validateRequest(osTag, req[c])
       THEN /\ pc' = [pc EXCEPT ![c] = "cacheRLock"]
            /\ UNCHANGED <<ret, dist, obs>>
       ELSE /\ pc' = [pc EXCEPT ![c] = "idle"]
            /\ ret' = [ret EXCEPT ![c] = [kind |-> "err", list |-> <<>>]]
            /\ obs' = [obs EXCEPT ![c] = Returned(obs[c], FALSE, dist[c])]
            /\ dist' = [dist EXCEPT ![c] = FALSE]
    /\ UNCHANGED <<cacheVars, configVars, matcherVars, handlerVars, memVars, timeoutVars, lockVars, source, refVars, workerPc,
                   req, passCampaigns, matches, stats,
                   snapVersion, installed, passVer, passRules, queryCacheVer, discarded>>

Key(c) == CHOOSE k \in {generateCacheKey(r) : r \in {normalizeRequest(req[c])}} : TRUE

\* getFromQueryCache line 199
getFromQueryCacheRLock(c) ==
    /\ pc[c] = "cacheRLock"
    /\ CanRLock
    /\ readers' = readers \cup {c}
    /\ pc' = [pc EXCEPT ![c] = "cacheRead"]
    /\ UNCHANGED <<cacheVars, configVars, matcherVars, handlerVars, memVars, timeoutVars, writer, source, refVars, workerPc,
                   req, passCampaigns, matches, ret, stats, histVars>>

\* the value getFromQueryCache returns for a key: nil when the key is absent
cachedValue(qc, key) == IF key \in DOMAIN qc THEN qc[key] ELSE <<>>

\* getFromQueryCache lines 207-210 with the deferred RUnlock, and the test
\* "cached != nil" of GetMatchingCampaigns lines 67-69
getFromQueryCache(c) ==
    /\ pc[c] = "cacheRead"
    /\ readers' = readers \ {c}
    /\ \E cached \in {cachedValue(queryCache, Key(c))} :
           IF cached # <<>>
           THEN /\ pc' = [pc EXCEPT ![c] = "idle"]
                /\ ret' = [ret EXCEPT ![c] = [kind |-> "ok", list |-> cached]]
                /\ obs' = [obs EXCEPT ![c] = Returned(obs[c], TRUE, dist[c])]
                /\ dist' = [dist EXCEPT ![c] = FALSE]
           ELSE /\ pc' = [pc EXCEPT ![c] = "findRLock"]
                /\ UNCHANGED <<ret, dist, obs>>
    /\ UNCHANGED <<cacheVars, configVars, matcherVars, handlerVars, memVars, timeoutVars, writer, source, refVars, workerPc,
                   req, passCampaigns, matches, stats,
                   snapVersion, installed, passVer, passRules, queryCacheVer, discarded>>

\* a matching pass that starts without waiting for the writer to unlock
findMatchingCampaignsNoRLock(c) ==
    /\ pc[c] = "findRLock"
    /\ readers' = readers \cup {c}
    /\ pc' = [pc EXCEPT ![c] = "findRange"]
    /\ UNCHANGED <<cacheVars, configVars, matcherVars, handlerVars, memVars, timeoutVars, writer, source, refVars, workerPc,
                   req, passCampaigns, matches, ret, stats, histVars>>

\* findMatchingCampaigns line 105
findMatchingCampaignsRLock(c) ==
    /\ pc[c] = "findRLock"
    /\ CanRLock
    /\ readers' = readers \cup {c}
    /\ pc' = [pc EXCEPT ![c] = "findRange"]
    /\ UNCHANGED <<cacheVars, configVars, matcherVars, handlerVars, memVars, timeoutVars, writer, source, refVars, workerPc,
                   req, passCampaigns, matches, ret, stats, histVars>>

\* line 110: the range loop reads s.cache.campaigns
findMatchingCampaignsRange(c) ==
    /\ pc[c] = "findRange"
    /\ passCampaigns' = [passCampaigns EXCEPT ![c] = campaigns]
    /\ passVer' = [passVer EXCEPT ![c] = snapVersion]
    /\ pc' = [pc EXCEPT ![c] = "findMatch"]
    /\ UNCHANGED <<cacheVars, configVars, matcherVars, handlerVars, memVars, timeoutVars, lockVars, source, refVars, workerPc,
                   req, matches, ret, stats,
                   snapVersion, installed, passRules, queryCacheVer, discarded, dist, obs>>

\* lines 110-122: campaignMatches reads s.cache.targetingRules for every
\* campaign of the loop; the deferred RUnlock runs at the return
findMatchingCampaigns(c) ==
    /\ pc[c] = "findMatch"
    /\ \E order \in Orders(DOMAIN passCampaigns[c]), r \in {normalizeRequest(req[c])} :
          matches' = [matches EXCEPT ![c] = matchLoop(order, passCampaigns[c], targetingRules, r)]
    /\ passRules' = [passRules EXCEPT ![c] = targetingRules]
    /\ readers' = readers \ {c}
    /\ pc' = [pc EXCEPT ![c] = "setLock"]
    /\ UNCHANGED <<cacheVars, configVars, matcherVars, handlerVars, memVars, timeoutVars, writer, source, refVars, workerPc,
                   req, passCampaigns, ret, stats,
                   snapVersion, installed, passVer, queryCacheVer, discarded, dist, obs>>

\* setToQueryCache line 215
setToQueryCacheLock(c) ==
    /\ pc[c] = "setLock"
    /\ CanLock
    /\ writer' = c
    /\ pc' = [pc EXCEPT ![c] = "setWrite"]
    /\ UNCHANGED <<cacheVars, configVars, matcherVars, handlerVars, memVars, timeoutVars, readers, source, refVars, workerPc,
                   req, passCampaigns, matches, ret, stats, histVars>>

\* a map without the key k
Without(m, k) == [x \in DOMAIN m \ {k} |-> m[x]]

\* a map with key k set to v
With(m, k, v) == [x \in DOMAIN m \cup {k} |-> IF x = k THEN v ELSE m[x]]

\* setToQueryCache line 219: the cache is full and the range loop has a key
\* to delete
mustEvict(qc, limit) == Cardinality(DOMAIN qc) >= limit /\ DOMAIN qc # {}

\* setToQueryCache lines 219-227: the map that results from deleting `victim`
\* when the cache is full (victim is the first key the range loop yields)
\* and storing the result
putQueryCache(qc, evict, victim, key, result) ==
    IF evict
    THEN With(Without(qc, victim), key, result)
    ELSE With(qc, key, result)

\* a setToQueryCache that returns without its Unlock
setToQueryCacheKeepsLock(c) ==
    /\ pc[c] = "setWrite"
    /\ \E key \in {Key(c)}, evict \in {mustEvict(queryCache, maxSize)} :
          /\ \E victim \in (IF evict THEN DOMAIN queryCache ELSE {key}) :
                /\ queryCache' = putQueryCache(queryCache, evict, victim, key, matches[c])
                /\ queryCacheVer' = putQueryCache(queryCacheVer, evict, victim, key, passVer[c])
          /\ dist' = [x \in Clients |-> IF x = c THEN FALSE ELSE dist[x] \/ evict]
    /\ UNCHANGED writer
    /\ pc' = [pc EXCEPT ![c] = "idle"]
    /\ ret' = [ret EXCEPT ![c] = [kind |-> "ok", list |-> matches[c]]]
    /\ obs' = [obs EXCEPT ![c] = Returned(obs[c], FALSE, dist[c])]
    /\ matches' = [matches EXCEPT ![c] = <<>>]
    /\ passCampaigns' = [passCampaigns EXCEPT ![c] = EmptyMap]
    /\ passRules' = [passRules EXCEPT ![c] = EmptyMap]
    /\ passVer' = [passVer EXCEPT ![c] = 0]
    /\ UNCHANGED <<campaigns, targetingRules, lastUpdate, lastRefresh, configVars, matcherVars, handlerVars, memVars, timeoutVars, readers,
                   source, refVars, workerPc, req, stats,
                   snapVersion, installed, discarded>>

\* setToQueryCache lines 219-227 with the deferred Unlock, and the return of
\* GetMatchingCampaigns line 80
setToQueryCache(c) ==
    /\ pc[c] = "setWrite"
    /\ \E key \in {Key(c)}, evict \in {mustEvict(queryCache, maxSize)} :
          /\ \E victim \in (IF evict THEN DOMAIN queryCache ELSE {key}) :
                /\ queryCache' = putQueryCache(queryCache, evict, victim, key, matches[c])
                /\ queryCacheVer' = putQueryCache(queryCacheVer, evict, victim, key, passVer[c])
          /\ dist' = [x \in Clients |-> IF x = c THEN FALSE ELSE dist[x] \/ evict]
    /\ writer' = NoHolder
    /\ pc' = [pc EXCEPT ![c] = "idle"]
    /\ ret' = [ret EXCEPT ![c] = [kind |-> "ok", list |-> matches[c]]]
    /\ obs' = [obs EXCEPT ![c] = Returned(obs[c], FALSE, dist[c])]
    /\ matches' = [matches EXCEPT ![c] = <<>>]
    /\ passCampaigns' = [passCampaigns EXCEPT ![c] = EmptyMap]
    /\ passRules' = [passRules EXCEPT ![c] = EmptyMap]
    /\ passVer' = [passVer EXCEPT ![c] = 0]
    /\ UNCHANGED <<campaigns, targetingRules, lastUpdate, lastRefresh, configVars, matcherVars, handlerVars, memVars, timeoutVars, readers,
                   source, refVars, workerPc, req, stats,
                   snapVersion, installed, discarded>>

----------------------------------------------------------------------------
(* GetCacheStats                                                           *)

\* a caller invokes GetCacheStats: line 287
GetCacheStatsRLock(c) ==
    /\ pc[c] = "idle"
    /\ CanRLock
    /\ readers' = readers \cup {c}
    /\ pc' = [pc EXCEPT ![c] = "statsRead"]
    /\ stats' = [stats EXCEPT ![c] = NoStats]
    /\ UNCHANGED <<cacheVars, configVars, matcherVars, handlerVars, memVars, timeoutVars, writer, source, refVars, workerPc,
                   req, passCampaigns, matches, ret, histVars>>

\* GetCacheStats that stamps s.lastRefresh with the time of the call
GetCacheStatsStampsRefresh(c) ==
    /\ pc[c] = "statsRead"
    /\ \E t \in 1..MaxTime : lastRefresh' = t
    /\ stats' = [stats EXCEPT ![c] =
                    [campaigns_count |-> Cardinality(DOMAIN campaigns),
                     targeting_rules_count |-> Cardinality(DOMAIN targetingRules),
                     query_cache_size |-> Cardinality(DOMAIN queryCache),
                     last_refresh |-> lastRefresh,
                     last_update |-> lastUpdate]]
    /\ readers' = readers \ {c}
    /\ pc' = [pc EXCEPT ![c] = "idle"]
    /\ UNCHANGED <<campaigns, targetingRules, queryCache, lastUpdate, configVars, matcherVars,
                   handlerVars, memVars, timeoutVars, writer, source, refVars, workerPc,
                   req, passCampaigns, matches, ret, histVars>>

\* lines 290-296 with the deferred RUnlock
GetCacheStats(c) ==
    /\ pc[c] = "statsRead"
    /\ stats' = [stats EXCEPT ![c] =
                    [campaigns_count |-> Cardinality(DOMAIN campaigns),
                     targeting_rules_count |-> Cardinality(DOMAIN targetingRules),
                     query_cache_size |-> Cardinality(DOMAIN queryCache),
                     last_refresh |-> lastRefresh,
                     last_update |-> lastUpdate]]
    /\ readers' = readers \ {c}
    /\ pc' = [pc EXCEPT ![c] = "idle"]
    /\ UNCHANGED <<cacheVars, configVars, matcherVars, handlerVars, memVars, timeoutVars, writer, source, refVars, workerPc,
                   req, passCampaigns, matches, ret, histVars>>

----------------------------------------------------------------------------
(* refreshCache, run once by the goroutine NewTargetingService starts      *)

FetchErrors == {"error", "deadline exceeded"}

\* a refreshCache that stores the campaigns as soon as they are fetched
refreshCacheStoreCampaignsEarly ==
    /\ refPc = "fetchCampaigns"
    /\ \/ /\ refCampaigns' = SourceCampaigns(source)
          /\ campaigns' = populateCampaigns(EmptyMap, SourceCampaigns(source))
          /\ refPc' = "fetchRules"
          /\ UNCHANGED refErr
       \/ /\ \E e \in FetchErrors : refErr' = "failed to get active campaigns: " \o e
          /\ refPc' = "failed"
          /\ UNCHANGED <<refCampaigns, campaigns>>
    /\ UNCHANGED <<targetingRules, queryCache, lastUpdate, lastRefresh, configVars, matcherVars, handlerVars, memVars, timeoutVars, lockVars,
                   source, refRules, workerPc, clientVars, histVars>>

\* lines 236-239: the fetch returns the active campaigns or an error
refreshCacheGetActiveCampaigns ==
    /\ refPc = "fetchCampaigns"
    /\ \/ /\ refCampaigns' = SourceCampaigns(source)
          /\ refPc' = "fetchRules"
          /\ UNCHANGED refErr
       \/ /\ \E e \in FetchErrors : refErr' = "failed to get active campaigns: " \o e
          /\ refPc' = "failed"
          /\ UNCHANGED refCampaigns
    /\ UNCHANGED <<cacheVars, configVars, matcherVars, handlerVars, memVars, timeoutVars, lockVars, source, refRules, workerPc,
                   clientVars, histVars>>

\* lines 242-245
refreshCacheGetTargetingRules ==
    /\ refPc = "fetchRules"
    /\ \/ /\ refRules' = SourceRules(source)
          /\ refPc' = "lock"
          /\ UNCHANGED <<refErr, refCampaigns>>
       \/ /\ \E e \in FetchErrors : refErr' = "failed to get targeting rules: " \o e
          /\ refPc' = "failed"
          /\ refCampaigns' = <<>>
          /\ UNCHANGED refRules
    /\ UNCHANGED <<cacheVars, configVars, matcherVars, handlerVars, memVars, timeoutVars, lockVars, source, workerPc,
                   clientVars, histVars>>

\* a refreshCache that takes the mutex while readers hold it
refreshCacheLockNoWait ==
    /\ refPc = "lock"
    /\ writer = NoHolder
    /\ writer' = Refresher
    /\ refPc' = "clear"
    /\ UNCHANGED <<cacheVars, configVars, matcherVars, handlerVars, memVars, timeoutVars, readers, source, refCampaigns, refRules, refErr,
                   workerPc, clientVars, histVars>>

\* line 248
refreshCacheLock ==
    /\ refPc = "lock"
    /\ CanLock
    /\ writer' = Refresher
    /\ refPc' = "clear"
    /\ UNCHANGED <<cacheVars, configVars, matcherVars, handlerVars, memVars, timeoutVars, readers, source, refCampaigns, refRules, refErr,
                   workerPc, clientVars, histVars>>

\* a refreshCache that leaves the query cache as it is
refreshCacheClearKeepingQueryCache ==
    /\ refPc = "clear"
    /\ campaigns' = EmptyMap
    /\ targetingRules' = EmptyMap
    /\ snapVersion' = snapVersion + 1
    /\ dist' = [c \in Clients |-> TRUE]
    /\ refPc' = "populateCampaigns"
    /\ UNCHANGED <<queryCache, queryCacheVer, discarded, lastUpdate, lastRefresh, configVars, matcherVars, handlerVars, memVars, timeoutVars,
                   lockVars, source, refCampaigns, refRules, refErr, workerPc, clientVars,
                   installed, passVer, passRules, obs>>

\* lines 252-254: the three maps are replaced by empty maps
refreshCacheClear ==
    /\ refPc = "clear"
    /\ campaigns' = EmptyMap
    /\ targetingRules' = EmptyMap
    /\ queryCache' = EmptyMap
    /\ queryCacheVer' = EmptyMap
    /\ discarded' = (discarded \/ DOMAIN queryCache # {})
    /\ snapVersion' = snapVersion + 1
    /\ dist' = [c \in Clients |-> TRUE]
    /\ refPc' = "populateCampaigns"
    /\ UNCHANGED <<lastUpdate, lastRefresh, configVars, matcherVars, handlerVars, memVars, timeoutVars, lockVars, source,
                   refCampaigns, refRules, refErr, workerPc, clientVars,
                   installed, passVer, passRules, obs>>

\* lines 257-259
refreshCachePopulateCampaigns ==
    /\ refPc = "populateCampaigns"
    /\ campaigns' = populateCampaigns(campaigns, refCampaigns)
    /\ refPc' = "populateRules"
    /\ UNCHANGED <<targetingRules, queryCache, lastUpdate, lastRefresh, configVars, matcherVars, handlerVars, memVars, timeoutVars, lockVars,
                   source, refCampaigns, refRules, refErr, workerPc, clientVars, histVars>>

\* a refreshCache that keeps only the rules of the campaigns it installed
refreshCachePopulateRulesOfCampaigns ==
    /\ refPc = "populateRules"
    /\ targetingRules' =
          populateRules(targetingRules,
                        SelectSeq(refRules, LAMBDA r : r.CampaignID \in DOMAIN campaigns))
    /\ refPc' = "stamp"
    /\ UNCHANGED <<campaigns, queryCache, lastUpdate, lastRefresh, configVars, matcherVars, handlerVars, memVars, timeoutVars, lockVars,
                   source, refCampaigns, refRules, refErr, workerPc, clientVars, histVars>>

\* lines 262-264; rule.CampaignID of a nil rule is a nil pointer dereference:
\* the loop stops there, the deferred Unlock of line 249 runs, and the
\* goroutine of NewTargetingService (lines 44-48) has no recover
refreshCachePopulateRules ==
    /\ refPc = "populateRules"
    /\ IF \E i \in 1..Len(refRules) : refRules[i] = NilRule
       THEN /\ targetingRules' = populateRules(targetingRules, BeforeNil(refRules))
            /\ writer' = NoHolder
            /\ refPc' = "panicked"
       ELSE /\ targetingRules' = populateRules(targetingRules, refRules)
            /\ refPc' = "stamp"
            /\ UNCHANGED writer
    /\ UNCHANGED <<campaigns, queryCache, lastUpdate, lastRefresh, configVars, matcherVars, handlerVars, memVars, timeoutVars, readers,
                   source, refCampaigns, refRules, refErr, workerPc, clientVars, histVars>>

\* lines 266-269: the two time stamps, the deferred Unlock, return nil (the
\* locals of the returned call are dropped)
refreshCacheStamp ==
    /\ refPc = "stamp"
    /\ \E t1, t2 \in 1..MaxTime :
          /\ t1 <= t2
          /\ lastUpdate' = t1
          /\ lastRefresh' = t2
    /\ installed' = installed \cup {Snapshot(campaigns, targetingRules)}
    /\ writer' = NoHolder
    /\ refPc' = "done"
    /\ refCampaigns' = <<>>
    /\ refRules' = <<>>
    /\ UNCHANGED <<campaigns, targetingRules, queryCache, configVars, matcherVars, handlerVars, memVars, timeoutVars, readers, source,
                   refErr, workerPc, clientVars,
                   snapVersion, passVer, passRules, queryCacheVer, discarded, dist, obs>>

\* startCacheRefreshWorker lines 273-283: the loop is commented out, the
\* goroutine returns at once
startCacheRefreshWorker ==
    /\ workerPc = "start"
    /\ workerPc' = "returned"
    /\ UNCHANGED <<cacheVars, configVars, matcherVars, handlerVars, memVars, timeoutVars, lockVars, source, refVars, clientVars, histVars>>

----------------------------------------------------------------------------
(* GET /v1/delivery                                                        *)

\* DeliveryHandler.GetCampaigns after GetMatchingCampaigns has returned to
\* it (the call itself is Call(HandlerClient) with the parsed query): the
\* response is written
GetCampaigns ==
    /\ pc[HandlerClient] = "idle"
    /\ ret[HandlerClient].kind # "none"
    /\ response' =
          [GetCampaignsWrite(ret[HandlerClient], ValidationMessage(osTag, req[HandlerClient]))
              EXCEPT !.query = req[HandlerClient], !.of = ret[HandlerClient]]
    /\ UNCHANGED <<cacheVars, configVars, matcherVars, memVars, timeoutVars, lockVars, source, refVars, workerPc,
                   clientVars, histVars>>

----------------------------------------------------------------------------
(* the repository is written by its other users                            *)

\* UpdateCampaign stores a new campaign object and CreateTargetingRule
\* appends a rule to the repository's own slice: the objects the service
\* has fetched are not touched
RepositoryWrite ==
    /\ \E s \in SourceStates \ {source} : source' = s
    /\ UNCHANGED <<cacheVars, configVars, matcherVars, handlerVars, memVars, timeoutVars, lockVars, refVars, workerPc, clientVars, histVars>>

\* the campaign whose status the other users of the repository update
UpdatedCampaign == "duolingo"

\* a map of campaigns in which the campaign object `id`, when it is there,
\* has the status `status`
SetStatus(m, id, status) ==
    [k \in DOMAIN m |-> IF k = id THEN [m[k] EXCEPT !.Status = status] ELSE m[k]]

\* a list of campaigns in which the campaign object `id` has the status
\* `status`
SetStatusInList(list, id, status) ==
    [i \in 1..Len(list) |->
        IF list[i].ID = id THEN [list[i] EXCEPT !.Status = status] ELSE list[i]]

\* MemoryRepository.UpdateCampaignStatus assigns campaign.Status on the
\* campaign object of the repository; GetActiveCampaigns has handed out
\* pointers to that object, so the fetched list and the campaigns map of the
\* service see the assignment
UpdateCampaignStatus ==
    /\ source \in {"sample", "paused"}
    /\ \E status \in {StatusActive, StatusInactive} :
          /\ source' = IF status = StatusActive THEN "sample" ELSE "paused"
          /\ campaigns' = SetStatus(campaigns, UpdatedCampaign, status)
          /\ refCampaigns' = SetStatusInList(refCampaigns, UpdatedCampaign, status)
          /\ passCampaigns' =
                [c \in Clients |-> SetStatus(passCampaigns[c], UpdatedCampaign, status)]
    /\ UNCHANGED <<targetingRules, queryCache, lastUpdate, lastRefresh, configVars, matcherVars, handlerVars, memVars, timeoutVars,
                   lockVars, refPc, refRules, refErr, workerPc,
                   pc, req, matches, ret, stats, histVars>>

----------------------------------------------------------------------------
(* Specifications                                                          *)

RefreshNext ==
    \/ refreshCacheGetActiveCampaigns
    \/ refreshCacheGetTargetingRules
    \/ refreshCacheLock
    \/ refreshCacheClear
    \/ refreshCachePopulateCampaigns
    \/ refreshCachePopulateRules
    \/ refreshCacheStamp

ClientNext(c) ==
    \/ Call(c)
    \/ Validate(c)
    \/ getFromQueryCacheRLock(c)
    \/ getFromQueryCache(c)
    \/ findMatchingCampaignsRLock(c)
    \/ findMatchingCampaignsRange(c)
    \/ findMatchingCampaigns(c)
    \/ setToQueryCacheLock(c)
    \/ setToQueryCache(c)

StatsNext(c) ==
    \/ GetCacheStatsRLock(c)
    \/ GetCacheStats(c)

\* one caller, the refresh goroutine, the worker goroutine and the repository
Next ==
    \/ ClientNext("c1")
    \/ StatsNext("c1")
    \/ RefreshNext
    \/ startCacheRefreshWorker
    \/ RepositoryWrite

Spec == Init /\ [][Next]_vars

\* two concurrent callers, the refresh goroutine and the worker goroutine,
\* over a repository that is not written meanwhile
ConcNext ==
    \/ \E c \in ConcClients : ClientNext(c)
    \/ RefreshNext
    \/ startCacheRefreshWorker

\* the caller of the test scenarios, the refresh goroutine and the worker
\* goroutine, over a repository that is not written meanwhile
ScenarioNext ==
    \/ ClientNext(ScenarioClient)
    \/ RefreshNext
    \/ startCacheRefreshWorker

ScenarioSpec == Init /\ [][ScenarioNext]_vars

\* the delivery handler over the service, the refresh goroutine and the
\* worker goroutine
HandlerNext ==
    \/ ClientNext(HandlerClient)
    \/ GetCampaigns
    \/ RefreshNext
    \/ startCacheRefreshWorker

HandlerSpec == Init /\ [][HandlerNext]_vars

\* the service over either implementation of Repository: the
\* MemoryRepository of the tests or the RepositoryImpl of main
RepositoryInit ==
    /\ ServiceInitFor(0..MaxCacheSize, OSTags, {"sample", "mongo"})
    /\ matcherIn = NoMatcherIn
    /\ matcherOut = NoMatcherOut

RepositorySpec == RepositoryInit /\ [][ScenarioNext]_vars

\* the service over the MemoryRepository while the status of a campaign is
\* updated
MemoryNext ==
    \/ ScenarioNext
    \/ UpdateCampaignStatus

MemorySpec == Init /\ [][MemoryNext]_vars

\* the service over a repository that holds rules of a campaign that is not
\* active, or the sample data
OrphanInit ==
    /\ ServiceInitFor(0..MaxCacheSize, OSTags, {"sample", "changed"})
    /\ matcherIn = NoMatcherIn
    /\ matcherOut = NoMatcherOut

OrphanSpec == OrphanInit /\ [][ScenarioNext]_vars

\* the service over an implementation of Repository that returns a nil
\* entry in its list of rules, or the sample data; a panic that no goroutine
\* recovers from ends the process
NilRuleInit ==
    /\ ServiceInitFor(0..MaxCacheSize, OSTags, {"sample", "nilrule"})
    /\ matcherIn = NoMatcherIn
    /\ matcherOut = NoMatcherOut

NilRuleNext == refPc # "panicked" /\ ScenarioNext

NilRuleSpec == NilRuleInit /\ [][NilRuleNext]_vars

\* the caller of the test scenarios with a query cache of up to MaxPutSize
\* entries
PutInit ==
    /\ ServiceInitFor(0..MaxPutSize, {OSTagRequired}, {"sample"})
    /\ matcherIn = NoMatcherIn
    /\ matcherOut = NoMatcherOut

PutSpec == PutInit /\ [][ScenarioNext]_vars

\* the concurrent callers run with one configuration
ConcInit == Init /\ maxSize = MaxCacheSize /\ osTag = OSTagRequired

ConcSpec == ConcInit /\ [][ConcNext]_vars

\* the caller that also reads the statistics while the others call
StatsClient == "c2"

\* the request the callers repeat: a miss before the refresh, and a hit once
\* a pass over the sample data has stored spotify
LiveRequest == DeliveryRequest(s_abc, s_us, s_ios)

\* the concurrent callers, one of which also calls GetCacheStats; every call
\* of GetMatchingCampaigns is made with LiveRequest
LiveNext ==
    /\ \/ ConcNext
       \/ StatsNext(StatsClient)
    /\ \A c \in ConcClients : pc'[c] = "validate" => req'[c] = LiveRequest

\* every goroutine that can take a step is scheduled (WF); sync.RWMutex is
\* starvation free: a goroutine blocked in Lock or RLock gets the mutex when
\* it is free again and again (SF). Nobody is obliged to start a call.
LiveSpec ==
    /\ ConcInit
    /\ [][LiveNext]_vars
    /\ SF_vars(RefreshNext)
    /\ \A c \in ConcClients : SF_vars(pc[c] # "idle" /\ (ClientNext(c) \/ StatsNext(c)))

\* the goroutines of the service are scheduled fairly; the callers and the
\* writers of the repository may stop at any time
FairSpec ==
    /\ Init
    /\ [][Next]_vars
    /\ WF_vars(RefreshNext)
    /\ WF_vars(startCacheRefreshWorker)
    /\ WF_vars(ClientNext("c1") /\ pc["c1"] # "idle")
    /\ WF_vars(StatsNext("c1") /\ pc["c1"] # "idle")

----------------------------------------------------------------------------
(* The matcher applied to drawn arguments                                  *)

MatcherInit ==
    /\ ServiceInit
    /\ \E m \in MatcherMaps, r \in MatcherRequests :
          matcherIn = [rules |-> m, campaignID |-> MatcherCampaign, req |-> r]
    /\ matcherOut = NoMatcherOut
    /\ maxSize = MaxCacheSize
    /\ osTag = OSTagRequired

\* matchesDimension applied as ruleMatches applies it to dimension d of
\* rule i
applyMatchesDimension ==
    /\ \E i \in 1..Len(MatcherRuleList), d \in Dimensions :
          LET a == DimensionArgs(MatcherRuleList[i], matcherIn.req, d)
          IN  matcherOut' = [fn |-> "matchesDimension", rule |-> i, dim |-> d,
                             val |-> matchesDimension(a.value, a.include, a.exclude, a.caseSensitive)]
    /\ UNCHANGED <<cacheVars, configVars, handlerVars, memVars, timeoutVars, lockVars, source, refVars, workerPc, clientVars,
                   histVars, matcherIn>>

\* ruleMatches applied to rule i of the campaign
applyRuleMatches ==
    /\ \E i \in 1..Len(MatcherRuleList) :
          matcherOut' = [fn |-> "ruleMatches", rule |-> i, dim |-> "",
                         val |-> ruleMatches(MatcherRuleList[i], matcherIn.req)]
    /\ UNCHANGED <<cacheVars, configVars, handlerVars, memVars, timeoutVars, lockVars, source, refVars, workerPc, clientVars,
                   histVars, matcherIn>>

\* campaignMatches applied to the campaign
applyCampaignMatches ==
    /\ matcherOut' = [fn |-> "campaignMatches", rule |-> 0, dim |-> "",
                      val |-> campaignMatches(matcherIn.rules, matcherIn.campaignID, matcherIn.req)]
    /\ UNCHANGED <<cacheVars, configVars, handlerVars, memVars, timeoutVars, lockVars, source, refVars, workerPc, clientVars,
                   histVars, matcherIn>>

MatcherNext ==
    \/ applyMatchesDimension
    \/ applyRuleMatches
    \/ applyCampaignMatches

MatcherSpec == MatcherInit /\ [][MatcherNext]_vars

----------------------------------------------------------------------------
(* Properties                                                              *)

\* a matching pass of caller c has read both maps and has its result
PassDone(c) == pc[c] \in {"setLock", "setWrite"}

\* the Snapshot the repository would yield now
SourceSnapshot ==
    Snapshot(populateCampaigns(EmptyMap, SourceCampaigns(source)),
             populateRules(EmptyMap, SourceRules(source)))

\* a field of the request is missing (the zero value)
MissingField(r) == r.App = s_empty \/ r.Country = s_empty \/ r.OS = s_empty

\* the results a matching pass can compute for request r on Snapshot s
PassResults(s, r) ==
    {matchLoop(order, s.campaigns, s.rules, normalizeRequest(r)) : order \in Orders(DOMAIN s.campaigns)}

\* C1: every entry of the query cache was computed against the Snapshot
\* that is installed now; no entry computed against a superseded Snapshot
\* is in the cache.
C1_EntriesComputedAgainstInstalled ==
    \A k \in DOMAIN queryCache : queryCacheVer[k] = snapVersion

\* C2: the campaigns map and the rules map a matching pass has read are the
\* two maps of one installed Snapshot, and its result is a result of the
\* matcher on that Snapshot.
C2_NoTornSnapshot ==
    \A c \in Clients :
        PassDone(c) =>
            \E s \in installed :
                /\ passCampaigns[c] = s.campaigns
                /\ passRules[c] = s.rules
                /\ matches[c] \in PassResults(s, req[c])

\* a pass on the old Snapshot and a pass on the new Snapshot are both under
\* way: they ran on either side of the swap
C2_Witness ==
    \E c, d \in Clients :
        /\ PassDone(c) /\ passVer[c] = 0
        /\ PassDone(d) /\ passVer[d] = 1 /\ passCampaigns[d] # EmptyMap
        /\ matches[c] # matches[d]

\* C3: a refreshCache run in which a fetch fails returns an error, and no
\* step of the run up to the failure changes the campaigns, the rules, the
\* query cache, lastUpdate or lastRefresh; they are still the ones from
\* before the run.
C3_FailedRefreshChangesNothing ==
    /\ [][(refPc \in {"fetchCampaigns", "fetchRules"} /\ refPc' # refPc)
            => /\ UNCHANGED cacheVars
               /\ refPc' = "failed" => refErr' # ""]_vars
    /\ [](refPc = "failed" =>
            /\ refErr # ""
            /\ campaigns = EmptyMap /\ targetingRules = EmptyMap
            /\ lastUpdate = 0 /\ lastRefresh = 0)

\* the campaigns were fetched, the rules fetch timed out, and the query
\* cache holds an entry
C3_Witness ==
    /\ refPc = "failed"
    /\ refErr = "failed to get targeting rules: deadline exceeded"
    /\ DOMAIN queryCache # {}

\* C4: when a successful refreshCache run releases its lock the query cache
\* is empty.
C4_RefreshEmptiesQueryCache ==
    [][(refPc = "stamp" /\ refPc' = "done") => (queryCache' = EmptyMap /\ writer' = NoHolder)]_vars

\* a run that found entries in the query cache has returned
C4_Witness == refPc = "done" /\ discarded /\ refErr = ""

\* C5: a call that repeats the caller's previous successful request, with no
\* refresh and no eviction since that call returned, is a cache hit and
\* returns the same set of campaigns.
C5_RepeatIsCacheHit ==
    \A c \in Clients :
        (obs[c].done /\ obs[c].repeat /\ obs[c].undisturbed /\ ret[c].kind = "ok")
            => (obs[c].hit /\ Range(ret[c].list) = Range(obs[c].prev))

\* C6: no matching pass reads the empty Snapshot from before the initial
\* refresh, unless the initial refresh failed.
C6_InitialRefreshSynchronous ==
    \A c \in Clients :
        pc[c] \in {"findMatch", "setLock", "setWrite"} => (passVer[c] >= 1 \/ refPc = "failed")

\* no refreshCache run is under way and the installed Snapshot is not what
\* the repository holds
Stale ==
    /\ refPc \in {"done", "failed"}
    /\ Snapshot(campaigns, targetingRules) # SourceSnapshot

\* C7: whenever the installed Snapshot does not reflect the repository, a
\* later refreshCache run installs one that does.
C7_EventuallyRefreshed == Stale ~> ~Stale

\* C8: a call whose request misses a field returns an error straight from
\* validation and changes neither the cache nor the lock.
C8_MissingFieldRejected ==
    [][\A c \in Clients :
          /\ (pc[c] = "idle" /\ pc'[c] = "validate") => UNCHANGED <<cacheVars, lockVars>>
          /\ (pc[c] = "validate" /\ MissingField(req[c]) /\ pc'[c] # "validate")
                => /\ pc'[c] = "idle"
                   /\ ret'[c].kind = "err"
                   /\ UNCHANGED <<cacheVars, lockVars>>]_vars

\* a request without a country was rejected while the query cache holds an
\* entry
C8_Witness ==
    \E c \in Clients :
        /\ pc[c] = "idle" /\ ret[c].kind = "err"
        /\ req[c].Country = s_empty /\ req[c].App # s_empty /\ req[c].OS # s_empty
        /\ DOMAIN queryCache # {}

\* C9: every request that is past validation has app, country and OS
\* non-empty after trimming.
C9_ValidatedFieldsNonEmptyAfterTrim ==
    \A c \in Clients :
        pc[c] \in {"cacheRLock", "cacheRead", "findRLock", "findRange", "findMatch", "setLock", "setWrite"}
            => /\ TrimSpace(req[c].App) # s_empty
               /\ TrimSpace(req[c].Country) # s_empty
               /\ TrimSpace(req[c].OS) # s_empty

\* C10: a call with three non-empty fields for which no campaign of the
\* Snapshot matches returns success with an empty list.
C10_NoMatchIsSuccess ==
    \A c \in Clients :
        (/\ pc[c] = "idle" /\ ret[c].kind # "none"
         /\ ~MissingField(req[c])
         /\ PassResults(Snapshot(campaigns, targetingRules), req[c]) = {<<>>})
            => (ret[c].kind = "ok" /\ ret[c].list = <<>>)

\* C11: campaignMatches returns true for every request when the campaign
\* has no rules, whether the rules map has no entry for the campaign or
\* holds an empty list for it.
C11_NoRulesMatchesEveryRequest ==
    (matcherOut.fn = "campaignMatches" /\ MatcherRuleList = <<>>) => matcherOut.val

\* campaignMatches was applied to a campaign that has no entry in the rules
\* map
C11_Witness ==
    /\ matcherOut.fn = "campaignMatches"
    /\ matcherIn.campaignID \notin DOMAIN matcherIn.rules
    /\ matcherOut.val

\* v is an entry of the list: by equality, or by equality ignoring the
\* letter case
Member(v, list, exact) ==
    \E x \in Range(list) : IF exact THEN x = v ELSE ToUpper(x) = ToUpper(v)

\* v is not excluded, and is included when there is an include list
DimensionPasses(v, I, E, exact) ==
    ~Member(v, E, exact) /\ (I = <<>> \/ Member(v, I, exact))

\* dimension d of the rule passes for the request
RuleDimensionPasses(rule, r, d) ==
    LET a == DimensionArgs(rule, r, d)
    IN  DimensionPasses(a.value, a.include, a.exclude, a.caseSensitive)

\* C12: for a campaign with at least one rule, campaignMatches returns true
\* exactly when some rule of the campaign has its country dimension, its OS
\* dimension and its app dimension all passing.
C12_AnyRuleAllDimensions ==
    (matcherOut.fn = "campaignMatches" /\ MatcherRuleList # <<>>)
        => (matcherOut.val <=>
               \E i \in 1..Len(MatcherRuleList) :
                   \A d \in Dimensions : RuleDimensionPasses(MatcherRuleList[i], matcherIn.req, d))

\* the campaign matched through its second rule while its first rule has a
\* passing and a failing dimension
C12_Witness ==
    /\ matcherOut.fn = "campaignMatches" /\ matcherOut.val
    /\ Len(MatcherRuleList) = 2
    /\ \E d, e \in Dimensions :
          /\ RuleDimensionPasses(MatcherRuleList[1], matcherIn.req, d)
          /\ ~RuleDimensionPasses(MatcherRuleList[1], matcherIn.req, e)
    /\ \A d \in Dimensions : RuleDimensionPasses(MatcherRuleList[2], matcherIn.req, d)

\* C13: matchesDimension passes exactly when the value is not in the
\* exclude list and the include list is empty or contains the value.
C13_ExcludeThenInclude ==
    matcherOut.fn = "matchesDimension"
        => LET a == DimensionArgs(MatcherRuleList[matcherOut.rule], matcherIn.req, matcherOut.dim)
           IN  matcherOut.val <=> DimensionPasses(a.value, a.include, a.exclude, a.caseSensitive)

\* the value is in the include list and in the exclude list, and the
\* dimension failed
C13_Witness ==
    /\ matcherOut.fn = "matchesDimension" /\ ~matcherOut.val
    /\ LET a == DimensionArgs(MatcherRuleList[matcherOut.rule], matcherIn.req, matcherOut.dim)
       IN  a.value \in Range(a.include) /\ a.value \in Range(a.exclude)

SampleSnapshot ==
    Snapshot(populateCampaigns(EmptyMap, SampleCampaigns), populateRules(EmptyMap, SampleRules))

\* caller c has returned from a call it made after the initial refresh had
\* installed the sample data
Settled(c) ==
    /\ pc[c] = "idle" /\ ret[c].kind # "none"
    /\ obs[c].settled
    /\ Snapshot(campaigns, targetingRules) = SampleSnapshot

\* the identifiers of the campaigns the last call of c returned
ReturnedCampaigns(c) == {ret[c].list[i].CID : i \in 1..Len(ret[c].list)}

\* C15: when the country of the request equals, ignoring the letter case, an
\* entry of the include-country list of a rule, the country of the request
\* is not excluded by that rule and the OS and app dimensions of the rule
\* pass, GetMatchingCampaigns returns the campaign of the rule.
C15_CountryMatchingIgnoresCase ==
    \A c \in Clients :
        Settled(c) =>
            \A id \in DOMAIN targetingRules :
                \A i \in 1..Len(targetingRules[id]) :
                    LET rule == targetingRules[id][i]
                        r == normalizeRequest(req[c])
                    IN  (/\ id \in DOMAIN campaigns /\ IsActive(campaigns[id])
                         /\ validateRequest(osTag, req[c])
                         /\ Member(TrimSpace(req[c].Country), rule.IncludeCountry, FALSE)
                         /\ ~Member(TrimSpace(req[c].Country), rule.ExcludeCountry, FALSE)
                         /\ RuleDimensionPasses(rule, r, "os")
                         /\ RuleDimensionPasses(rule, r, "app"))
                            => (ret[c].kind = "ok" /\ id \in ReturnedCampaigns(c))

\* C16: after the initial refresh of the sample data, the request
\* com.abc.xyz, germany, android returns exactly the campaign duolingo.
C16_GermanyAndroidReturnsDuolingo ==
    \A c \in Clients :
        (Settled(c) /\ req[c] = DeliveryRequest(s_abc, s_germany, s_android))
            => /\ ret[c].kind = "ok"
               /\ Len(ret[c].list) = 1
               /\ ReturnedCampaigns(c) = {"duolingo"}

\* the request was answered, once by a matching pass and once from the
\* query cache
C16_Witness ==
    \E c \in Clients :
        /\ Settled(c) /\ req[c] = DeliveryRequest(s_abc, s_germany, s_android)
        /\ obs[c].repeat /\ obs[c].hit

\* C17: after the initial refresh of the sample data, the request
\* com.gametion.ludokinggame, us, android returns exactly the campaigns
\* spotify and subwaysurfer, and not duolingo.
C17_LudoUsAndroidReturnsSpotifyAndSubwaysurfer ==
    \A c \in Clients :
        (Settled(c) /\ req[c] = DeliveryRequest(s_ludo, s_us, s_android))
            => /\ ret[c].kind = "ok"
               /\ Len(ret[c].list) = 2
               /\ ReturnedCampaigns(c) = {"spotify", "subwaysurfer"}

\* the request was answered by a matching pass that visited duolingo
C17_Witness ==
    \E c \in Clients :
        /\ Settled(c) /\ req[c] = DeliveryRequest(s_ludo, s_us, s_android)
        /\ ~obs[c].hit /\ ret[c].kind = "ok"
        /\ "duolingo" \in DOMAIN campaigns

\* C18: after the initial refresh of the sample data, the request
\* com.example.app, canada, ios returns exactly the campaign spotify.
C18_CanadaIosReturnsSpotify ==
    \A c \in Clients :
        (Settled(c) /\ req[c] = DeliveryRequest(s_example, s_canada, s_ios))
            => /\ ret[c].kind = "ok"
               /\ ReturnedCampaigns(c) = {"spotify"}

\* C19: a call whose request differs from the request of the caller's
\* previous, answered call at most in surrounding whitespace, in the letter
\* case of the country and in the letter case of the OS is answered too, with
\* the same set of campaigns, when no refresh came between the two calls.
C19_NormalizationInsensitive ==
    \A c \in Clients :
        (obs[c].done /\ obs[c].variant /\ obs[c].undisturbed)
            => (ret[c].kind = "ok" /\ Range(ret[c].list) = Range(obs[c].prev))

\* C20: the query cache never holds more entries than config.Cache.MaxSize,
\* whatever the configured maximum is, zero included.
C20_QueryCacheBounded == Cardinality(DOMAIN queryCache) <= maxSize

\* C21: setToQueryCache removes exactly one entry when the key is not cached
\* and storing it would exceed config.Cache.MaxSize, removes no entry when
\* the key is already cached or the cache is below capacity, and leaves the
\* key mapped to the stored result.
C21_EvictsOnlyOnOverflow ==
    [][\A c \in Clients :
          (pc[c] = "setWrite" /\ pc'[c] = "idle")
             => LET key == Key(c)
                    removed == DOMAIN queryCache \ DOMAIN queryCache'
                    overflow == /\ key \notin DOMAIN queryCache
                                /\ Cardinality(DOMAIN queryCache) + 1 > maxSize
                IN  /\ (overflow /\ DOMAIN queryCache # {}) => Cardinality(removed) = 1
                    /\ ~overflow => removed = {}
                    /\ key \in DOMAIN queryCache'
                    /\ queryCache'[key] = matches[c]]_vars

\* the number of rules in all the groups of a rules map
RECURSIVE TotalRules(_)
TotalRules(m) ==
    IF DOMAIN m = {} THEN 0
    ELSE LET k == CHOOSE x \in DOMAIN m : TRUE
         IN  Len(m[k]) + TotalRules(Without(m, k))

\* C22: GetCacheStats reports the number of campaigns of the Snapshot it
\* reads, the total number of targeting rules of that Snapshot (every rule of
\* a campaign that has several counted) and the number of entries of the
\* query cache.
C22_StatsCountCampaignsRulesEntries ==
    [][\A c \in Clients :
          (pc[c] = "statsRead" /\ pc'[c] = "idle")
             => /\ stats'[c].campaigns_count = Cardinality(DOMAIN campaigns)
                /\ stats'[c].targeting_rules_count = TotalRules(targetingRules)
                /\ stats'[c].query_cache_size = Cardinality(DOMAIN queryCache)]_vars

\* C23: every campaign a successful refresh has installed satisfies
\* IsActive, so an installed campaign without rules is returned by every
\* answered call made after the refresh; and every campaign a call returns
\* is an installed campaign that satisfies IsActive.
C23_InstalledCampaignsAreActive ==
    /\ refPc = "done" => \A id \in DOMAIN campaigns : IsActive(campaigns[id])
    /\ \A c \in Clients :
          (pc[c] = "idle" /\ ret[c].kind = "ok" /\ obs[c].settled)
             => /\ \A id \in DOMAIN campaigns :
                      (id \notin DOMAIN targetingRules) => id \in ReturnedCampaigns(c)
                /\ \A id \in ReturnedCampaigns(c) :
                      id \in DOMAIN campaigns /\ IsActive(campaigns[id])

\* C24: the campaigns and the rules the service matches against change only
\* by a step of a refreshCache run inside its critical section; no write to
\* the repository changes them.
C24_SnapshotChangesOnlyByRefresh ==
    [][(campaigns' # campaigns \/ targetingRules' # targetingRules)
          => (writer = Refresher /\ refPc' # refPc)]_vars

\* the rule groups of the campaigns that are in the campaigns map and active
WithoutOrphans(rulesMap, campaignsMap) ==
    [k \in {id \in DOMAIN rulesMap : id \in DOMAIN campaignsMap /\ IsActive(campaignsMap[id])}
        |-> rulesMap[k]]

\* the campaign identifiers of the rules map that are not those of an active
\* campaign of the campaigns map
Orphans(rulesMap, campaignsMap) ==
    DOMAIN rulesMap \ DOMAIN WithoutOrphans(rulesMap, campaignsMap)

\* C25: a refreshCache run keeps every fetched rule in the group of its
\* campaign identifier and raises no error, also when no active campaign of
\* the Snapshot has that identifier; and the result of a matching pass is a
\* result of the matcher on the Snapshot without such rules.
C25_OrphanRulesAreHarmless ==
    /\ refPc = "stamp" =>
          /\ refErr = ""
          /\ \A i \in 1..Len(refRules) :
                /\ refRules[i].CampaignID \in DOMAIN targetingRules
                /\ refRules[i] \in Range(targetingRules[refRules[i].CampaignID])
    /\ \A c \in Clients :
          PassDone(c) =>
             matches[c] \in PassResults(Snapshot(passCampaigns[c],
                                                 WithoutOrphans(passRules[c], passCampaigns[c])),
                                        req[c])

\* a pass that found campaigns has read a rules map with a rule of a
\* campaign that is not in the campaigns map
C25_Witness ==
    \E c \in Clients :
        /\ PassDone(c) /\ matches[c] # <<>>
        /\ Orphans(passRules[c], passCampaigns[c]) # {}

C27_EveryCallReturns ==
    /\ \A c \in ConcClients : []<>(pc[c] = "idle")
    /\ []<>(refPc \in {"done", "failed"})

\* the refresh and a caller wait for the write lock while the other caller
\* reads
C27_Witness ==
    /\ refPc = "lock"
    /\ readers # {}
    /\ \E c \in ConcClients : pc[c] = "setLock"

\* the callers between an RLock and its RUnlock: in a cache lookup, in a
\* matching pass or in a stats read
InReadSection == {c \in Clients : pc[c] \in {"cacheRead", "findRange", "findMatch", "statsRead"}}

\* the goroutines between a Lock and its Unlock: a caller in setToQueryCache,
\* the refresh goroutine in its swap of the Snapshot
InWriteSection ==
    {c \in Clients : pc[c] = "setWrite"}
        \cup (IF refPc \in {"clear", "populateCampaigns", "populateRules", "stamp"}
              THEN {Refresher} ELSE {})

\* C28: while a Snapshot swap or a query-cache write is in its critical
\* section, no lookup, matching pass, stats read or other write is in its
\* critical section
C28_ReaderWriterExclusion ==
    /\ Cardinality(InWriteSection) <= 1
    /\ InWriteSection # {} => InReadSection = {}

\* a stats read and a matching pass are in their critical sections together
C28_Witness ==
    /\ Cardinality(InReadSection) >= 2
    /\ \E c \in InReadSection : pc[c] = "statsRead"
    /\ \E c \in InReadSection : pc[c] = "findMatch"

\* the rule group of a campaign identifier in the Snapshot: empty when the
\* map has no entry for it
RuleGroup(cid) == IF cid \in DOMAIN targetingRules THEN targetingRules[cid] ELSE <<>>

\* C29: when a refresh has filled the maps, the rule group of every campaign
\* identifier holds exactly the fetched rules with that CampaignID, each once
\* and in the order of the fetch, and the campaigns map holds exactly the
\* fetched campaigns under their identifiers
C29_RefreshGroupsRulesByCampaign ==
    refPc = "stamp" =>
        /\ \A cid \in DOMAIN targetingRules \cup DOMAIN campaigns
                      \cup {refRules[i].CampaignID : i \in 1..Len(refRules)} :
              RuleGroup(cid) = SelectSeq(refRules, LAMBDA r : r.CampaignID = cid)
        /\ DOMAIN campaigns = {refCampaigns[i].ID : i \in 1..Len(refCampaigns)}
        /\ \A i \in 1..Len(refCampaigns) : campaigns[refCampaigns[i].ID] = refCampaigns[i]

\* a refresh has grouped two rules under one campaign, and a campaign it
\* installed has one rule
C29_Witness ==
    /\ refPc = "stamp"
    /\ \E cid \in DOMAIN targetingRules : Len(targetingRules[cid]) = 2
    /\ \E cid \in DOMAIN campaigns : Len(RuleGroup(cid)) = 1

Eligible(c) ==
    {id \in DOMAIN passCampaigns[c] :
        /\ passCampaigns[c][id].Status = StatusActive
        /\ campaignMatches(passRules[c], id, normalizeRequest(req[c]))}

\* C31: the result of a matching pass has one entry for every active campaign
\* for which campaignMatches is true and no other entry: no identifier
\* twice, none left out, each entry with the identifier, the image and the
\* call to action of its campaign
C31_PassReturnsExactlyTheMatches ==
    \A c \in Clients : PassDone(c) =>
        /\ Len(matches[c]) = Cardinality(Eligible(c))
        /\ {matches[c][i].CID : i \in 1..Len(matches[c])} = Eligible(c)
        /\ \A i \in 1..Len(matches[c]) :
              LET campaign == passCampaigns[c][matches[c][i].CID]
              IN  /\ matches[c][i].CID = campaign.ID
                  /\ matches[c][i].Image = campaign.Image
                  /\ matches[c][i].CTA = campaign.CTA

\* a pass has returned two campaigns and left one out
C31_Witness ==
    \E c \in Clients :
        /\ PassDone(c)
        /\ Len(matches[c]) = 2
        /\ Cardinality(DOMAIN passCampaigns[c]) = 3

----------------------------------------------------------------------------
(* generateCacheKey applied to pairs of requests                           *)

\* requests that pass validateRequest with the required tag; the validator
\* does not look at the characters of a field
KeyRequests ==
    { DeliveryRequest(s_x, s_US, s_ios),
      DeliveryRequest(s_x, s_us, s_iOS),
      DeliveryRequest(s_x \o s_bar \o s_US, s_US, s_ios),
      DeliveryRequest(s_x, s_US \o s_bar \o s_US, s_ios),
      DeliveryRequest(s_abc, s_germany, s_android),
      DeliveryRequest(s_ludo_sp, s_us_sp, s_Android_sp) }

KeyInit ==
    /\ ServiceInitFor({MaxCacheSize}, OSTags, {"sample"})
    /\ \E a, b \in KeyRequests : matcherIn = [a |-> a, b |-> b]
    /\ matcherOut = NoMatcherOut

\* GetMatchingCampaigns lines 63-66 for both requests: normalizeRequest, then
\* generateCacheKey
applyGenerateCacheKey ==
    /\ matcherOut' = [fn |-> "generateCacheKey",
                      a |-> generateCacheKey(normalizeRequest(matcherIn.a)),
                      b |-> generateCacheKey(normalizeRequest(matcherIn.b))]
    /\ UNCHANGED <<cacheVars, configVars, handlerVars, memVars, timeoutVars, lockVars, source, refVars, workerPc, clientVars,
                   histVars, matcherIn>>

\* findMatchingCampaigns for both requests on the Snapshot of the sample
\* data: the identifiers of the campaigns returned
applyFindMatchingCampaigns ==
    /\ \E order \in Orders(DOMAIN SampleSnapshot.campaigns) :
          LET pass(r) == matchLoop(order, SampleSnapshot.campaigns, SampleSnapshot.rules,
                                   normalizeRequest(r))
              ids(list) == {list[i].CID : i \in 1..Len(list)}
          IN  matcherOut' = [fn |-> "findMatchingCampaigns",
                             a |-> ids(pass(matcherIn.a)), b |-> ids(pass(matcherIn.b))]
    /\ UNCHANGED <<cacheVars, configVars, handlerVars, memVars, timeoutVars, lockVars, source, refVars, workerPc, clientVars,
                   histVars, matcherIn>>

KeyNext ==
    \/ applyGenerateCacheKey
    \/ applyFindMatchingCampaigns

KeySpec == KeyInit /\ [][KeyNext]_vars

\* the two requests are valid, and normalize to the same app, the same
\* country and to OS values that are equal ignoring case
SameNormalized(a, b) ==
    /\ normalizeRequest(a).App = normalizeRequest(b).App
    /\ normalizeRequest(a).Country = normalizeRequest(b).Country
    /\ EqualFold(normalizeRequest(a).OS, normalizeRequest(b).OS)

\* C32: two valid requests get the same cache key exactly when their
\* normalized app and country are equal and their normalized OS values are
\* equal ignoring case, and two valid requests with the same cache key get
\* the same campaigns on the Snapshot of the sample data
C32_KeyIdentifiesRequest ==
    (validateRequest(osTag, matcherIn.a) /\ validateRequest(osTag, matcherIn.b)) =>
        /\ matcherOut.fn = "generateCacheKey" =>
              (matcherOut.a = matcherOut.b <=> SameNormalized(matcherIn.a, matcherIn.b))
        /\ matcherOut.fn = "findMatchingCampaigns" =>
              (generateCacheKey(normalizeRequest(matcherIn.a))
                    = generateCacheKey(normalizeRequest(matcherIn.b))
                  => matcherOut.a = matcherOut.b)

----------------------------------------------------------------------------
(* Frame of the request-serving and stats operations                       *)

\* a step of caller c, in GetMatchingCampaigns or in GetCacheStats: every
\* action of ClientNext and StatsNext moves the position of its caller
CallerStep(c) == pc'[c] # pc[c]

\* a step of caller c in GetCacheStats
StatsStep(c) == CallerStep(c) /\ (pc'[c] = "statsRead" \/ pc[c] = "statsRead")

\* C33: no step of a GetMatchingCampaigns call (validation error, hit or
\* miss) and no step of a GetCacheStats call changes the installed
\* campaigns, the installed rules, lastUpdate or lastRefresh, and no step of
\* GetCacheStats changes the query cache
C33_ServingLeavesSnapshotUnchanged ==
    [][ \A c \in Clients :
          /\ CallerStep(c) => UNCHANGED <<campaigns, targetingRules, lastUpdate, lastRefresh>>
          /\ StatsStep(c) => UNCHANGED queryCache ]_vars

\* a GetCacheStats call has returned the counts of an installed Snapshot and
\* of a query cache that a call of GetMatchingCampaigns has written
C33_Witness ==
    /\ stats["c1"].campaigns_count > 0
    /\ stats["c1"].query_cache_size > 0
    /\ ret["c1"].kind = "ok"
    /\ lastRefresh > 0
    /\ pc["c1"] = "idle"

----------------------------------------------------------------------------
(* MemoryRepository: the targeting rule methods and DeleteCampaign. Every  *)
(* method holds r.mutex from its first statement to its return, so each is *)
(* one step. A caller passes a rule object the repository does not hold.   *)

\* identifiers CreateTargetingRule may assign in the model
MaxRuleID == 4

RepoCampaignIDs == {"spotify", "duolingo"}
\* the identifiers callers update and delete: a seeded rule and a created rule
RepoRuleIDs == {1, 4}

\* the rule object a caller passes to CreateTargetingRule: ID is the zero
\* value
CreatedRule(cid) == Rule(0, cid, NoList, NoList, <<s_iOS>>, NoList, NoList, NoList)

\* the rule object a caller passes to UpdateTargetingRule
UpdatedRule(id, cid) == Rule(id, cid, NoList, NoList, <<s_Android>>, NoList, NoList, NoList)

serviceVars == <<cacheVars, configVars, lockVars, source, refVars, workerPc, clientVars, histVars,
                 matcherVars, handlerVars>>

\* r.targetingRules[cid]: the zero value (a nil slice) for a missing key
RepoRuleList(cid) ==
    IF cid \in DOMAIN repoTargetingRules THEN repoTargetingRules[cid] ELSE <<>>

\* m[k] = v
MapSet(m, k, v) == [x \in DOMAIN m \cup {k} |-> IF x = k THEN v ELSE m[x]]

\* delete(m, k)
MapDelete(m, k) == [x \in DOMAIN m \ {k} |-> m[x]]

\* the loop of UpdateTargetingRule lines 1044-1049: the first entry with the
\* identifier of `rule` is replaced
ReplaceFirst(rules, rule) ==
    IF \E i \in 1..Len(rules) : rules[i].ID = rule.ID
    THEN LET first == CHOOSE i \in 1..Len(rules) :
                         /\ rules[i].ID = rule.ID
                         /\ \A j \in 1..(i - 1) : rules[j].ID # rule.ID
         IN  [rules EXCEPT ![first] = rule]
    ELSE rules

\* the lists of r.targetingRules appended in the order `order` of its keys
RECURSIVE AllRules(_, _)
AllRules(order, m) ==
    IF order = <<>> THEN <<>> ELSE m[Head(order)] \o AllRules(Tail(order), m)

\* CreateTargetingRule that numbers the new rule by the rules stored
CreateTargetingRuleCountsRules ==
    /\ nextRuleID <= MaxRuleID
    /\ \E cid \in RepoCampaignIDs :
          LET rule == [CreatedRule(cid) EXCEPT !.ID = Cardinality(DOMAIN rulesByID) + 1]
          IN  /\ nextRuleID' = nextRuleID + 1
              /\ repoTargetingRules' =
                    MapSet(repoTargetingRules, rule.CampaignID,
                           Append(RepoRuleList(rule.CampaignID), rule))
              /\ rulesByID' = MapSet(rulesByID, rule.ID, rule)
              /\ assigned' = Append(assigned, rule.ID)
              /\ repoRet' = [NoRepoReturn EXCEPT !.op = "CreateTargetingRule",
                                                  !.id = rule.ID, !.cid = cid]
              /\ deleted' = deleted \ {rule.ID}
    /\ UNCHANGED <<serviceVars, timeoutVars, repoCampaigns>>

\* lines 1012-1025
CreateTargetingRule ==
    /\ nextRuleID <= MaxRuleID
    /\ \E cid \in RepoCampaignIDs :
          LET rule == [CreatedRule(cid) EXCEPT !.ID = nextRuleID]
          IN  /\ nextRuleID' = nextRuleID + 1
              /\ repoTargetingRules' =
                    MapSet(repoTargetingRules, rule.CampaignID,
                           Append(RepoRuleList(rule.CampaignID), rule))
              /\ rulesByID' = MapSet(rulesByID, rule.ID, rule)
              /\ assigned' = Append(assigned, rule.ID)
              /\ repoRet' = [NoRepoReturn EXCEPT !.op = "CreateTargetingRule",
                                                  !.id = rule.ID, !.cid = cid]
              /\ deleted' = deleted \ {rule.ID}
    /\ UNCHANGED <<serviceVars, timeoutVars, repoCampaigns>>

\* lines 1028-1052
UpdateTargetingRule ==
    /\ \E id \in RepoRuleIDs, cid \in RepoCampaignIDs :
          LET rule == UpdatedRule(id, cid)
          IN  IF rule.ID \notin DOMAIN rulesByID
              THEN /\ repoRet' = [NoRepoReturn EXCEPT !.op = "UpdateTargetingRule", !.id = id,
                                                      !.cid = cid, !.err = "not found"]
                   /\ UNCHANGED <<repoTargetingRules, rulesByID>>
              ELSE LET existingRule == rulesByID[rule.ID]
                   IN  /\ rulesByID' = MapSet(rulesByID, rule.ID, rule)
                       /\ repoTargetingRules' =
                             IF existingRule.CampaignID \in DOMAIN repoTargetingRules
                             THEN [repoTargetingRules EXCEPT ![existingRule.CampaignID] =
                                      ReplaceFirst(@, rule)]
                             ELSE repoTargetingRules
                       /\ repoRet' = [NoRepoReturn EXCEPT !.op = "UpdateTargetingRule",
                                                           !.id = id, !.cid = cid]
    /\ UNCHANGED <<serviceVars, timeoutVars, repoCampaigns, nextRuleID, assigned, deleted>>

\* lines 1055-1076: the lookup and the removal from the slice are commented
\* out
DeleteTargetingRule ==
    /\ \E id \in RepoRuleIDs :
          /\ rulesByID' = MapDelete(rulesByID, id)
          /\ deleted' = deleted \cup {id}
          /\ repoRet' = [NoRepoReturn EXCEPT !.op = "DeleteTargetingRule", !.id = id]
    /\ UNCHANGED <<serviceVars, timeoutVars, repoCampaigns, repoTargetingRules, nextRuleID, assigned>>

\* lines 1079-1097
DeleteTargetingRulesByCampaignID ==
    /\ \E campaignID \in RepoCampaignIDs :
          /\ IF campaignID \notin DOMAIN repoTargetingRules
             THEN UNCHANGED <<repoTargetingRules, rulesByID>>
             ELSE LET rules == repoTargetingRules[campaignID]
                  IN  /\ rulesByID' =
                            [id \in DOMAIN rulesByID \ {rules[i].ID : i \in 1..Len(rules)} |->
                                rulesByID[id]]
                      /\ repoTargetingRules' = MapDelete(repoTargetingRules, campaignID)
          /\ repoRet' = [NoRepoReturn EXCEPT !.op = "DeleteTargetingRulesByCampaignID",
                                              !.cid = campaignID]
    /\ UNCHANGED <<serviceVars, timeoutVars, repoCampaigns, nextRuleID, assigned, deleted>>

\* lines 953-965
DeleteCampaign ==
    /\ \E id \in RepoCampaignIDs :
          IF id \notin repoCampaigns
          THEN /\ repoRet' = [NoRepoReturn EXCEPT !.op = "DeleteCampaign", !.cid = id,
                                                  !.err = "not found"]
               /\ UNCHANGED <<repoCampaigns, repoTargetingRules>>
          ELSE /\ repoCampaigns' = repoCampaigns \ {id}
               /\ repoTargetingRules' = MapDelete(repoTargetingRules, id)
               /\ repoRet' = [NoRepoReturn EXCEPT !.op = "DeleteCampaign", !.cid = id]
    /\ UNCHANGED <<serviceVars, timeoutVars, rulesByID, nextRuleID, assigned, deleted>>

\* lines 986-996: the range over r.targetingRules visits its keys in any
\* order
GetTargetingRules ==
    /\ \E order \in Orders(DOMAIN repoTargetingRules) :
          repoRet' = [NoRepoReturn EXCEPT !.op = "GetTargetingRules",
                                          !.list = AllRules(order, repoTargetingRules)]
    /\ UNCHANGED <<serviceVars, timeoutVars, repoCampaigns, repoTargetingRules, rulesByID,
                   nextRuleID, assigned, deleted>>

\* lines 999-1009
GetTargetingRulesByCampaignID ==
    /\ \E campaignID \in RepoCampaignIDs :
          repoRet' = [NoRepoReturn EXCEPT !.op = "GetTargetingRulesByCampaignID",
                                          !.cid = campaignID,
                                          !.list = RepoRuleList(campaignID)]
    /\ UNCHANGED <<serviceVars, timeoutVars, repoCampaigns, repoTargetingRules, rulesByID,
                   nextRuleID, assigned, deleted>>

MemoryRepositoryNext ==
    \/ CreateTargetingRule
    \/ UpdateTargetingRule
    \/ DeleteTargetingRule
    \/ DeleteTargetingRulesByCampaignID
    \/ DeleteCampaign
    \/ GetTargetingRules
    \/ GetTargetingRulesByCampaignID

MemoryRepositorySpec == ConcInit /\ [][MemoryRepositoryNext]_vars

\* the rules the per-campaign lists hold, as (campaign key, position) pairs
StoredEntries ==
    {<<cid, i>> : cid \in DOMAIN repoTargetingRules, i \in 1..MaxRuleID} \cap
    UNION {{<<cid, i>> : i \in 1..Len(repoTargetingRules[cid])} : cid \in DOMAIN repoTargetingRules}

C35_DeletedRuleIsNotReturned ==
    repoRet.op \in {"GetTargetingRules", "GetTargetingRulesByCampaignID"} =>
        \A i \in 1..Len(repoRet.list) : repoRet.list[i].ID \notin deleted

\* C36: rulesByID and the per-campaign lists hold the same rules: every rule
\* of rulesByID is an entry of the list of its own CampaignID, and every
\* entry of a list is a rule of that campaign that rulesByID holds, with the
\* same value, under its identifier
C36_RuleIndexesConsistent ==
    /\ \A id \in DOMAIN rulesByID :
          \E i \in 1..Len(RepoRuleList(rulesByID[id].CampaignID)) :
              RepoRuleList(rulesByID[id].CampaignID)[i] = rulesByID[id]
    /\ \A e \in StoredEntries :
          LET rule == repoTargetingRules[e[1]][e[2]]
          IN  /\ rule.CampaignID = e[1]
              /\ rule.ID \in DOMAIN rulesByID
              /\ rulesByID[rule.ID] = rule

----------------------------------------------------------------------------
(* The Timeout middleware: the goroutine of the middleware and the         *)
(* goroutine it starts for next.ServeHTTP share the ResponseWriter w       *)

TimeoutWriter == "Timeout"
NextWriter == "next"

\* the responses the wrapped delivery handler writes
NextStatuses == {StatusOK, StatusNoContent, StatusBadRequest}

\* w.Header().Set("Content-Type", ...): headers set after WriteHeader are
\* not sent
HeaderSet(rw, value) ==
    IF rw.wroteHeader THEN rw ELSE [rw EXCEPT !.contentType = value]

\* w.WriteHeader(code) called by `who`: net/http keeps the first status and
\* ignores a second call
WriteHeader(rw, code, who, returned) ==
    [rw EXCEPT !.status = IF rw.wroteHeader THEN @ ELSE code,
               !.wroteHeader = TRUE,
               !.by = Append(@, who),
               !.late = @ \/ returned]

\* w.Write(body) called by `who`: the bytes are appended to the body
Write(rw, who, returned) ==
    [rw EXCEPT !.status = IF rw.wroteHeader THEN @ ELSE StatusOK,
               !.wroteHeader = TRUE,
               !.body = Append(@, who),
               !.by = Append(@, who),
               !.late = @ \/ returned]

timeoutRest == <<serviceVars, memVars>>

\* lines 159-169: a request enters the middleware, which derives ctx, makes
\* the channel and starts the goroutine of next.ServeHTTP
Timeout ==
    /\ tmPc \in {"idle", "returned"}
    /\ nextPc \in {"none", "returned"}
    /\ tmPc' = "select"
    /\ nextPc' = "serve"
    /\ nextStatus' \in NextStatuses
    /\ ctxErr' = ""
    /\ done' = 0
    /\ w' = NoWriter
    /\ UNCHANGED timeoutRest

\* the deadline of ctx passes, or the context of the request is canceled
contextDone ==
    /\ tmPc = "select"
    /\ ctxErr = ""
    /\ ctxErr' \in {"DeadlineExceeded", "Canceled"}
    /\ UNCHANGED <<timeoutRest, tmPc, nextPc, nextStatus, done, w>>

\* next.ServeHTTP, line 167: the handler writes with response.JSON or
\* response.NoContent and never looks at ctx; first the header
nextHeaderSet ==
    /\ nextPc = "serve"
    /\ w' = HeaderSet(w, "application/json")
    /\ nextPc' = "writeHeader"
    /\ UNCHANGED <<timeoutRest, tmPc, nextStatus, ctxErr, done>>

\* response.JSON line 12, response.NoContent line 27
nextWriteHeader ==
    /\ nextPc = "writeHeader"
    /\ w' = WriteHeader(w, nextStatus, NextWriter, tmPc = "returned")
    /\ nextPc' = IF nextStatus = StatusNoContent THEN "send" ELSE "encode"
    /\ UNCHANGED <<timeoutRest, tmPc, nextStatus, ctxErr, done>>

\* response.JSON lines 14-18
nextEncode ==
    /\ nextPc = "encode"
    /\ w' = Write(w, NextWriter, tmPc = "returned")
    /\ nextPc' = "send"
    /\ UNCHANGED <<timeoutRest, tmPc, nextStatus, ctxErr, done>>

\* done <- true, line 168: the channel has room for the one value
nextSend ==
    /\ nextPc = "send"
    /\ done < 1
    /\ done' = done + 1
    /\ nextPc' = "returned"
    /\ UNCHANGED <<timeoutRest, tmPc, nextStatus, ctxErr, w>>

\* select, case <-done: lines 172-173
selectDone ==
    /\ tmPc = "select"
    /\ done > 0
    /\ done' = done - 1
    /\ tmPc' = "returned"
    /\ UNCHANGED <<timeoutRest, nextPc, nextStatus, ctxErr, w>>

\* select, case <-ctx.Done(): lines 174-175
selectCtxDone ==
    /\ tmPc = "select"
    /\ ctxErr # ""
    /\ tmPc' = IF ctxErr = "DeadlineExceeded" THEN "timeoutHeader" ELSE "returned"
    /\ UNCHANGED <<timeoutRest, nextPc, nextStatus, ctxErr, done, w>>

\* line 176
timeoutHeaderSet ==
    /\ tmPc = "timeoutHeader"
    /\ w' = HeaderSet(w, "application/json")
    /\ tmPc' = "timeoutWriteHeader"
    /\ UNCHANGED <<timeoutRest, nextPc, nextStatus, ctxErr, done>>

\* line 177
timeoutWriteHeader ==
    /\ tmPc = "timeoutWriteHeader"
    /\ w' = WriteHeader(w, StatusRequestTimeout, TimeoutWriter, FALSE)
    /\ tmPc' = "timeoutWrite"
    /\ UNCHANGED <<timeoutRest, nextPc, nextStatus, ctxErr, done>>

\* line 178, and the return
timeoutWrite ==
    /\ tmPc = "timeoutWrite"
    /\ w' = Write(w, TimeoutWriter, FALSE)
    /\ tmPc' = "returned"
    /\ UNCHANGED <<timeoutRest, nextPc, nextStatus, ctxErr, done>>

TimeoutNext ==
    \/ Timeout
    \/ contextDone
    \/ nextHeaderSet
    \/ nextWriteHeader
    \/ nextEncode
    \/ nextSend
    \/ selectDone
    \/ selectCtxDone
    \/ timeoutHeaderSet
    \/ timeoutWriteHeader
    \/ timeoutWrite

TimeoutSpec == Init /\ [][TimeoutNext]_vars

\* C37: the ResponseWriter of a request is never written by both the
\* wrapped handler and the middleware, the wrapped handler never writes to
\* it after the middleware has returned, and when the middleware returns
\* for a request whose context was not canceled a response has been written
C37_ExactlyOneResponse ==
    /\ ~(NextWriter \in Range(w.by) /\ TimeoutWriter \in Range(w.by))
    /\ ~w.late
    /\ (tmPc = "returned" /\ ctxErr # "Canceled") => w.wroteHeader

====
